---- MODULE Spec2Model ----
(***************************************************************************)
(* Signed webhook service: the HMAC request validator with its nonce      *)
(* store, and the in-memory balance ledger.                                *)
(*                                                                         *)
(* Time is counted in ticks of one hour.      A time.Time is an integer    *)
(* number of ticks since the Unix epoch; a time.Duration is a signed 64    *)
(* bit count of nanoseconds, here a count of ticks between MinDuration     *)
(* and MaxDuration.  Strings are sequences of one-character strings.       *)
(***************************************************************************)
EXTENDS Integers, Sequences, FiniteSets, TLC

\* ---------------------------------------------------------------- bounds
NumWorkers == 2        \* goroutines serving requests at the same time
MaxClock == 2          \* the wall clock runs from 0 to MaxClock
MaxCalls == 2          \* calls started in one behaviour

Workers == 1..NumWorkers

\* ------------------------------------------------------------- constants
Hour == 1                     \* time.Hour, in ticks
MaxDuration == 2562047        \* 1<<63 - 1 nanoseconds, in whole ticks
MinDuration == -MaxDuration - 1
HighWaterMark == 10000        \* len(ns.nonces) > 10000
Secret == "test-secret-key"   \* the configured shared secret
WrongKey == "attacker-key"    \* any other key
Tolerances == {1, 2}          \* configured timestampTolerance, in ticks

NoWorker == 0
EmptyMap == [k \in {} |-> 0]   \* make(map[string]time.Time)

\* ------------------------------------------------------- time arithmetic
\* Time.Sub: the difference, saturated to the range of a Duration.
Sub(t, u) ==
    LET d == t - u
    IN  IF d > MaxDuration THEN MaxDuration
        ELSE IF d < MinDuration THEN MinDuration
        ELSE d

\* Unary minus on an int64: the most negative value wraps to itself.
Neg(d) == IF d = MinDuration THEN MinDuration ELSE 0 - d

\* if timeDiff < 0 { timeDiff = -timeDiff }
AbsDiff(d) == IF d < 0 THEN Neg(d) ELSE d

\* time.Since(t) at wall-clock time clock.
Since(clock, t) == Sub(clock, t)

\* ---------------------------------------------------------------- strings
Digits == <<"0", "1", "2", "3", "4", "5", "6", "7", "8", "9">>

IsDigit(c) == \E i \in 1..10 : Digits[i] = c

DigitVal(c) == (CHOOSE i \in 1..10 : Digits[i] = c) - 1

RECURSIVE DigitsVal(_)
DigitsVal(s) ==
    IF s = <<>> THEN 0
    ELSE 10 * DigitsVal(SubSeq(s, 1, Len(s) - 1)) + DigitVal(s[Len(s)])

Unsigned(s) ==
    IF s # <<>> /\ s[1] \in {"+", "-"} THEN Tail(s) ELSE s

\* strconv.ParseInt(s, 10, 64) succeeds: an optional sign and one or more
\* decimal digits.
ParseIntOk(s) ==
    /\ Unsigned(s) # <<>>
    /\ \A i \in 1..Len(Unsigned(s)) : IsDigit(Unsigned(s)[i])

ParseInt(s) ==
    IF s[1] = "-" THEN 0 - DigitsVal(Unsigned(s)) ELSE DigitsVal(Unsigned(s))

\* ------------------------------------------------------------- signature
\* HMAC-SHA256, hex encoded: a collision-free function of key and message.
HMACSHA256Hex(key, message) == <<"hmac-sha256", key, message>>

\* computeSignature signing the three parts with nothing between them.
computeSignature_NoSeparators(secret, timestamp, nonce, body) ==
    HMACSHA256Hex(secret, timestamp \o nonce \o body)

\* The decimal without its leading zeros.
RECURSIVE Trimmed(_)
Trimmed(s) == IF Len(s) > 1 /\ s[1] = "0" THEN Trimmed(Tail(s)) ELSE s

\* computeSignature signing the timestamp as a number rather than as the
\* header was received.
computeSignature_Canonical(secret, timestamp, nonce, body) ==
    HMACSHA256Hex(secret, Trimmed(timestamp) \o <<"\n">> \o nonce \o <<"\n">> \o body)

\* message := timestamp + "\n" + nonce + "\n" + string(body)
computeSignature(secret, timestamp, nonce, body) ==
    HMACSHA256Hex(secret, timestamp \o <<"\n">> \o nonce \o <<"\n">> \o body)

\* hmac.Equal on the two byte strings.
hmacEqual(a, b) == a = b

\* ----------------------------------------------------------------- inputs
\* Header values as the HTTP layer delivers them: <<>> is an absent header.
TimestampStrs ==
    { <<>>, <<"x">>, <<"0">>, <<"2">>, <<"9", "9", "9", "9", "9", "9", "9">> }
NonceStrs == { <<>>, <<"a">>, <<"b">> }
Bodies == { <<"{", "}">> }

SignatureStrs(ts, n, b) ==
    { <<>>, computeSignature(Secret, ts, n, b), computeSignature(WrongKey, ts, n, b) }

\* Every request: any header may be absent or malformed.
Requests ==
    UNION { { [ts |-> ts, nonce |-> n, sig |-> s, body |-> b] :
              s \in SignatureStrs(ts, n, b) } :
            <<ts, n, b>> \in TimestampStrs \X NonceStrs \X Bodies }

\* The requests that carry all three headers and a decimal timestamp.
WellFormedRequests ==
    { r \in Requests : r.ts # <<>> /\ r.nonce # <<>> /\ r.sig # <<>> /\ ParseIntOk(r.ts) }

\* ------------------------------------------------------------------ state
VARIABLES
    now,          \* the wall clock, time.Now()
    tolerance,    \* HMACValidator.timestampTolerance
    nonces,       \* NonceStore.nonces: nonce -> recorded time
    mu,           \* NonceStore.mu: the worker holding it, or NoWorker
    pc,           \* per worker: where it is in ValidateRequest
    req,          \* per worker: the request (timestamp, nonce, signature, body)
    nonce,        \* per worker: IsValid's nonce argument
    timestamp,    \* per worker: IsValid's timestamp argument (requestTime)
    isValid,      \* per worker: the value IsValid returned
    began,        \* per worker: the time.Now() read by ValidateRequest
    callNo,       \* per worker: ordinal of its call
    solo,         \* per worker: no other call has overlapped its call
    prior,        \* per worker: its request had been accepted before it began
    unseen,       \* per worker: the store held no record of its nonce when it began
    calls,        \* calls started so far
    accepted,     \* requests for which ValidateRequest returned nil
    seenAt,       \* nonce -> wall-clock time its current record was made
    first,        \* call number 1, once it has returned nil
    last          \* the call that returned most recently

vvars == <<now, tolerance, nonces, mu, pc, req, nonce, timestamp, isValid, began,
           callNo, solo, prior, unseen, calls, accepted, seenAt, first, last>>

VARIABLES
    sigA,         \* the request a client signed
    sigB,         \* the request presented with that signature
    signature,    \* the X-Signature value the client computed for sigA
    sigResult     \* what the signature comparison returned for sigB

svars == <<sigA, sigB, signature, sigResult>>

VARIABLES
    lmu,          \* InMemoryLedger.mu: the worker holding the write lock, or NoWorker
    balances,     \* InMemoryLedger.balances: user -> asset -> balance string
    entries,      \* InMemoryLedger.entries: the audit trail
    lpc,          \* per worker: where it is in AddEntry
    entry,        \* per worker: AddEntry's entry argument
    currentBalance, \* per worker: the balance it read
    newBalance,   \* per worker: the balance it computed
    lres,         \* per worker: what its last AddEntry returned
    lcalls        \* AddEntry calls started so far

lvars == <<lmu, balances, entries, lpc, entry, currentBalance, newBalance, lres, lcalls>>

VARIABLES
    before,       \* balances and entries as the holder of the write lock found them
    snap,         \* the BalanceResponse the last GetBalance returned, in its caller's hands
    queries       \* GetBalance calls made so far

qvars == <<before, snap, queries>>

VARIABLES
    handled,      \* HTTP requests and direct use-case calls served so far
    reply         \* what the last of them answered

pvars == <<handled, reply>>

VARIABLES
    stores,       \* the nonce map of each NonceStore constructed
    ledgers,      \* balances and entries of each InMemoryLedger constructed
    iseen,        \* when each record of each store was written
    icalls,       \* calls made on the instances so far
    ilast         \* the last of them and what it returned

ivars == <<stores, ledgers, iseen, icalls, ilast>>

vars == <<vvars, svars, lvars, qvars, pvars, ivars>>

NoReq == [ts |-> <<>>, nonce |-> <<>>, sig |-> <<>>, body |-> <<>>]
NoCall == [no |-> 0, req |-> NoReq, res |-> "none", began |-> 0,
           solo |-> FALSE, prior |-> FALSE, asked |-> FALSE, isValid |-> FALSE]

\* NewHMACValidator / NewNonceStore, and idle workers.
InitValidator ==
    /\ now = 0
    /\ tolerance \in Tolerances
    /\ nonces = EmptyMap
    /\ mu = NoWorker
    /\ pc = [w \in Workers |-> "idle"]
    /\ req = [w \in Workers |-> NoReq]
    /\ nonce = [w \in Workers |-> <<>>]
    /\ timestamp = [w \in Workers |-> 0]
    /\ isValid = [w \in Workers |-> FALSE]
    /\ began = [w \in Workers |-> 0]
    /\ callNo = [w \in Workers |-> 0]
    /\ solo = [w \in Workers |-> FALSE]
    /\ prior = [w \in Workers |-> FALSE]
    /\ unseen = [w \in Workers |-> FALSE]
    /\ calls = 0
    /\ accepted = {}
    /\ seenAt = EmptyMap
    /\ first = [req |-> NoReq, began |-> 0]
    /\ last = NoCall

\* ------------------------------------------------------------- NonceStore
\* ns.mu.Lock(): the mutex is free.
MutexFree == mu = NoWorker

\* The recorded nonce is older than one hour: time.Since(existingTime) > time.Hour.
AgedOut(clock, existingTime) == Since(clock, existingTime) > Hour

\* The sweep also deletes the records that are exactly one hour old.
cleanup_AtHour(m, clock) ==
    [n \in {k \in DOMAIN m : Sub(clock, m[k]) < Hour} |-> m[n]]

\* cleanup: every record older than one hour is deleted.
cleanup(m, clock) ==
    [n \in {k \in DOMAIN m : ~(Sub(clock, m[k]) > Hour)} |-> m[n]]

\* ns.nonces[nonce] = timestamp, then the sweep above the high-water mark.
Recorded(m, n, t, clock) ==
    LET put == IF n \in DOMAIN m THEN [m EXCEPT ![n] = t] ELSE (n :> t) @@ m
    IN  IF Cardinality(DOMAIN put) > HighWaterMark THEN cleanup(put, clock) ELSE put

\* delete(ns.nonces, nonce)
Deleted(m, n) == IF n \in DOMAIN m THEN [k \in DOMAIN m \ {n} |-> m[k]] ELSE m

\* --------------------------------------------------------- ValidateRequest
ErrMissingTimestamp == "missing X-Timestamp header"
ErrMissingNonce == "missing X-Nonce header"
ErrMissingSignature == "missing X-Signature header"
ErrTimestampFormat == "invalid X-Timestamp format"
ErrTolerance == "timestamp out of tolerance"
ErrDuplicateNonce == "duplicate nonce detected: possible replay attack"
ErrInvalidSignature == "invalid signature"
Nil == "nil"

\* timeDiff > v.timestampTolerance, with timeDiff the absolute value of
\* now.Sub(requestTime).
OutOfTolerance(clock, requestTime, tol) == AbsDiff(Sub(clock, requestTime)) > tol

\* HeaderChecks with the nonce looked at before the timestamp.
HeaderChecks_NonceFirst(r, clock, tol) ==
    IF r.nonce = <<>> THEN ErrMissingNonce
    ELSE IF r.ts = <<>> THEN ErrMissingTimestamp
    ELSE IF r.sig = <<>> THEN ErrMissingSignature
    ELSE IF ~ParseIntOk(r.ts) THEN ErrTimestampFormat
    ELSE IF OutOfTolerance(clock, ParseInt(r.ts), tol) THEN ErrTolerance
    ELSE Nil

\* The checks made before the nonce store is consulted: the error returned,
\* or Nil when the request goes on to the replay check.
HeaderChecks(r, clock, tol) ==
    IF r.ts = <<>> THEN ErrMissingTimestamp
    ELSE IF r.nonce = <<>> THEN ErrMissingNonce
    ELSE IF r.sig = <<>> THEN ErrMissingSignature
    ELSE IF ~ParseIntOk(r.ts) THEN ErrTimestampFormat
    ELSE IF OutOfTolerance(clock, ParseInt(r.ts), tol) THEN ErrTolerance
    ELSE Nil

\* The checks made once the nonce store has answered.
SignatureChecks(r, valid) ==
    IF ~valid THEN ErrDuplicateNonce
    ELSE IF ~hmacEqual(computeSignature(Secret, r.ts, r.nonce, r.body), r.sig)
         THEN ErrInvalidSignature
    ELSE Nil

\* The worker is free for the next request.
Idle(w) ==
    /\ pc' = [pc EXCEPT ![w] = "idle"]
    /\ req' = [req EXCEPT ![w] = NoReq]
    /\ nonce' = [nonce EXCEPT ![w] = <<>>]
    /\ timestamp' = [timestamp EXCEPT ![w] = 0]
    /\ isValid' = [isValid EXCEPT ![w] = FALSE]
    /\ began' = [began EXCEPT ![w] = 0]
    /\ callNo' = [callNo EXCEPT ![w] = 0]
    /\ prior' = [prior EXCEPT ![w] = FALSE]
    /\ unseen' = [unseen EXCEPT ![w] = FALSE]

\* ValidateRequest returns res to its caller.
Returned(c) ==
    /\ last' = c
    /\ first' = IF c.no = 1 /\ c.res = Nil
                THEN [req |-> c.req, began |-> c.began] ELSE first
    /\ accepted' = IF c.res = Nil THEN accepted \cup {c.req} ELSE accepted

\* ValidateRequest recording the nonce of a request it refuses on its headers.
ValidateRequest_Recording(w, r) ==
        LET ts == r.ts
            n == r.nonce
            err == HeaderChecks(r, now, tolerance)
            alone == \A v \in Workers \ {w} : pc[v] = "idle"
        IN  /\ last = NoCall
            /\ pc[w] = "idle"
            /\ \A v \in Workers : v < w => pc[v] # "idle"
            /\ calls < MaxCalls
            /\ calls' = calls + 1
            /\ IF err # Nil
               THEN /\ Returned([no |-> calls + 1, req |-> r, res |-> err,
                                 began |-> now, solo |-> alone, prior |-> r \in accepted,
                                 asked |-> FALSE, isValid |-> FALSE])
                    /\ UNCHANGED <<pc, req, nonce, timestamp, isValid, began, callNo,
                                   prior, unseen>>
                    /\ solo' = [v \in Workers |-> FALSE]
                    /\ nonces' = Recorded(nonces, n, now, now)
                    /\ seenAt' = [k \in DOMAIN nonces' |-> IF k = n THEN now ELSE seenAt[k]]
               ELSE /\ pc' = [pc EXCEPT ![w] = "lock"]
                    /\ req' = [req EXCEPT ![w] = r]
                    /\ nonce' = [nonce EXCEPT ![w] = n]
                    /\ timestamp' = [timestamp EXCEPT ![w] = ParseInt(ts)]
                    /\ began' = [began EXCEPT ![w] = now]
                    /\ callNo' = [callNo EXCEPT ![w] = calls + 1]
                    /\ prior' = [prior EXCEPT ![w] = r \in accepted]
                    /\ unseen' = [unseen EXCEPT ![w] = n \notin DOMAIN nonces]
                    /\ solo' = [v \in Workers |-> v = w /\ alone]
                    /\ UNCHANGED <<isValid, first, last, accepted, nonces, seenAt>>
            /\ UNCHANGED <<now, tolerance, mu>>
            /\ UNCHANGED <<svars, lvars, qvars, pvars, ivars>>

\* ValidateRequest up to the call of IsValid: the headers are read, the
\* timestamp parsed and compared with the clock.  A request that fails here
\* is answered at once.  The request goes to the first free worker.
ValidateRequest(w, r) ==
        LET ts == r.ts
            n == r.nonce
            err == HeaderChecks(r, now, tolerance)
            alone == \A v \in Workers \ {w} : pc[v] = "idle"
        IN  /\ last = NoCall
            /\ pc[w] = "idle"
            /\ \A v \in Workers : v < w => pc[v] # "idle"
            /\ calls < MaxCalls
            /\ calls' = calls + 1
            /\ IF err # Nil
               THEN /\ Returned([no |-> calls + 1, req |-> r, res |-> err,
                                 began |-> now, solo |-> alone, prior |-> r \in accepted,
                                 asked |-> FALSE, isValid |-> FALSE])
                    /\ UNCHANGED <<pc, req, nonce, timestamp, isValid, began, callNo,
                                   prior, unseen>>
                    /\ solo' = [v \in Workers |-> FALSE]
               ELSE /\ pc' = [pc EXCEPT ![w] = "lock"]
                    /\ req' = [req EXCEPT ![w] = r]
                    /\ nonce' = [nonce EXCEPT ![w] = n]
                    /\ timestamp' = [timestamp EXCEPT ![w] = ParseInt(ts)]
                    /\ began' = [began EXCEPT ![w] = now]
                    /\ callNo' = [callNo EXCEPT ![w] = calls + 1]
                    /\ prior' = [prior EXCEPT ![w] = r \in accepted]
                    /\ unseen' = [unseen EXCEPT ![w] = n \notin DOMAIN nonces]
                    /\ solo' = [v \in Workers |-> v = w /\ alone]
                    /\ UNCHANGED <<isValid, first, last, accepted>>
            /\ UNCHANGED <<now, tolerance, nonces, mu, seenAt>>
            /\ UNCHANGED <<svars, lvars, qvars, pvars, ivars>>

\* IsValid: ns.mu.Lock().
Lock(w) ==
    /\ last = NoCall
    /\ pc[w] = "lock"
    /\ MutexFree
    /\ mu' = w
    /\ pc' = [pc EXCEPT ![w] = "check"]
    /\ UNCHANGED <<now, tolerance, nonces, req, nonce, timestamp, isValid, began,
                   callNo, solo, prior, unseen, calls, accepted, seenAt, first, last>>
    /\ UNCHANGED <<svars, lvars, qvars, pvars, ivars>>

\* IsValid: the lookup.  A record not yet aged out rejects, and the deferred
\* unlock runs; an aged-out record is deleted.
Check(w) ==
    /\ last = NoCall
    /\ pc[w] = "check"
    /\ IF nonce[w] \in DOMAIN nonces /\ ~AgedOut(now, nonces[nonce[w]])
       THEN /\ mu' = NoWorker
            /\ isValid' = [isValid EXCEPT ![w] = FALSE]
            /\ pc' = [pc EXCEPT ![w] = "verify"]
            /\ UNCHANGED <<nonces, seenAt>>
       ELSE /\ nonces' = Deleted(nonces, nonce[w])
            /\ seenAt' = Deleted(seenAt, nonce[w])
            /\ pc' = [pc EXCEPT ![w] = "record"]
            /\ UNCHANGED <<mu, isValid>>
    /\ UNCHANGED <<now, tolerance, req, nonce, timestamp, began, callNo, solo, prior,
                   unseen, calls, accepted, first, last>>
    /\ UNCHANGED <<svars, lvars, qvars, pvars, ivars>>

\* IsValid: the record is written, the store swept if it is large, the
\* mutex released and true returned.
Record(w) ==
    /\ last = NoCall
    /\ pc[w] = "record"
    /\ nonces' = Recorded(nonces, nonce[w], timestamp[w], now)
    /\ seenAt' = [k \in DOMAIN nonces' |-> IF k = nonce[w] THEN now ELSE seenAt[k]]
    /\ mu' = NoWorker
    /\ isValid' = [isValid EXCEPT ![w] = TRUE]
    /\ pc' = [pc EXCEPT ![w] = "verify"]
    /\ UNCHANGED <<now, tolerance, req, nonce, timestamp, began, callNo, solo, prior,
                   unseen, calls, accepted, first, last>>
    /\ UNCHANGED <<svars, lvars, qvars, pvars, ivars>>

\* ValidateRequest after IsValid: the duplicate-nonce error, or the
\* signature is computed and compared, and the call returns.
Verify(w) ==
    /\ last = NoCall
    /\ pc[w] = "verify"
    /\ Returned([no |-> callNo[w], req |-> req[w],
                 res |-> SignatureChecks(req[w], isValid[w]),
                 began |-> began[w], solo |-> solo[w], prior |-> prior[w],
                 asked |-> TRUE, isValid |-> isValid[w]])
    /\ Idle(w)
    /\ solo' = [solo EXCEPT ![w] = FALSE]
    /\ UNCHANGED <<now, tolerance, nonces, mu, calls, seenAt>>
    /\ UNCHANGED <<svars, lvars, qvars, pvars, ivars>>

\* The wall clock advances.
Tick ==
    /\ last = NoCall
    /\ now < MaxClock
    /\ now' = now + 1
    /\ UNCHANGED <<tolerance, nonces, mu, pc, req, nonce, timestamp, isValid, began,
                   callNo, solo, prior, unseen, calls, accepted, seenAt, first, last>>
    /\ UNCHANGED <<svars, lvars, qvars, pvars, ivars>>

\* The caller has taken the answer of the call that returned.
Deliver ==
    /\ last # NoCall
    /\ last' = NoCall
    /\ UNCHANGED <<now, tolerance, nonces, mu, pc, req, nonce, timestamp, isValid, began,
                   callNo, solo, prior, unseen, calls, accepted, seenAt, first>>
    /\ UNCHANGED <<svars, lvars, qvars, pvars, ivars>>

\* ------------------------------------------------------------ signatures
\* A client signs one request and its signature is presented with another.
\* ValidateRequest takes any *http.Request, so a nonce may hold a line feed;
\* the timestamps are the ones strconv.ParseInt lets through.
SigTimestamps == { <<"1">>, <<"1", "2">> }
SigNonces == { <<"a">>, <<"b">>, <<"2", "a">>, <<"a", "\n", "b">> }
SigBodies == { <<>>, <<"c">>, <<"b", "\n", "c">>, <<"a", "\n", "c">> }

SigInputs == [ts : SigTimestamps, nonce : SigNonces, body : SigBodies]
NoSigInput == [ts |-> <<>>, nonce |-> <<>>, body |-> <<>>]
NoSignature == <<>>

InitSignature ==
    /\ sigA \in SigInputs
    /\ sigB \in SigInputs
    /\ signature = NoSignature
    /\ sigResult = "none"

ParkedSignature ==
    /\ sigA = NoSigInput
    /\ sigB = NoSigInput
    /\ signature = NoSignature
    /\ sigResult = "none"

\* The request r as it arrives with the signature sig in X-Signature.
Signed(r, sig) == [ts |-> r.ts, nonce |-> r.nonce, sig |-> sig, body |-> r.body]

\* The client computes X-Signature for sigA with the shared secret.
Sign ==
    /\ signature = NoSignature
    /\ signature' = computeSignature(Secret, sigA.ts, sigA.nonce, sigA.body)
    /\ UNCHANGED <<sigA, sigB, sigResult>>
    /\ UNCHANGED <<vvars, lvars, qvars, pvars, ivars>>

\* Someone without the secret computes a signature for sigB.
Forge ==
    /\ signature = NoSignature
    /\ signature' = computeSignature(WrongKey, sigB.ts, sigB.nonce, sigB.body)
    /\ UNCHANGED <<sigA, sigB, sigResult>>
    /\ UNCHANGED <<vvars, lvars, qvars, pvars, ivars>>

\* ValidateRequest compares the signature with the one it expects for sigB,
\* the nonce store having let the request through.
Present ==
    /\ signature # NoSignature
    /\ sigResult = "none"
    /\ sigResult' = SignatureChecks(Signed(sigB, signature), TRUE)
    /\ UNCHANGED <<sigA, sigB, signature>>
    /\ UNCHANGED <<vvars, lvars, qvars, pvars, ivars>>

NextSignature ==
    \/ Sign
    \/ Forge
    \/ Present

\* ---------------------------------------------------------------- decimals
\* decimal.Decimal as int + frac / 10^digits with 0 <= frac < 10^digits.
FixedPlaces == 8

RECURSIVE Pow10(_)
Pow10(n) == IF n = 0 THEN 1 ELSE 10 * Pow10(n - 1)

Dec(i, f, d) == [int |-> i, frac |-> f, digits |-> d]

DotAt(s) == {i \in 1..Len(s) : s[i] = "."}

WithoutDot(s) == SelectSeq(s, LAMBDA c : c # ".")

\* decimal.NewFromString(s) succeeds: an optional sign, digits, at most one
\* decimal point, at least one digit. (No input here uses an exponent.)
NewFromStringOk(s) ==
    /\ Cardinality(DotAt(s)) <= 1
    /\ ParseIntOk(WithoutDot(s))

\* The digits before and after the decimal point of an unsigned decimal.
WholeDigits(u) ==
    IF DotAt(u) = {} THEN u ELSE SubSeq(u, 1, (CHOOSE i \in DotAt(u) : TRUE) - 1)

FracDigits(u) ==
    IF DotAt(u) = {} THEN <<>> ELSE SubSeq(u, (CHOOSE i \in DotAt(u) : TRUE) + 1, Len(u))

\* NewFromString dropping the sign.
NewFromString_Magnitude(s) ==
    LET u == Unsigned(s)
    IN  Dec(DigitsVal(WholeDigits(u)), DigitsVal(FracDigits(u)), Len(FracDigits(u)))

NewFromString(s) ==
    LET u == Unsigned(s)
        e == Len(FracDigits(u))
        im == DigitsVal(WholeDigits(u))
        fm == DigitsVal(FracDigits(u))
    IN  IF s[1] = "-" /\ fm # 0 THEN Dec(0 - im - 1, Pow10(e) - fm, e)
        ELSE IF s[1] = "-" THEN Dec(0 - im, 0, e)
        ELSE Dec(im, fm, e)

Max(a, b) == IF a < b THEN b ELSE a

\* Decimal.Add: exact.
Add(a, b) ==
    LET d == Max(a.digits, b.digits)
        f == a.frac * Pow10(d - a.digits) + b.frac * Pow10(d - b.digits)
    IN  Dec(a.int + b.int + (f \div Pow10(d)), f % Pow10(d), d)

\* Decimal.Round(places): to the nearest, a tie going away from zero.
Round(v, places) ==
    IF v.digits <= places
    THEN Dec(v.int, v.frac * Pow10(places - v.digits), places)
    ELSE LET p == Pow10(v.digits - places)
             q == v.frac \div p
             r == v.frac % p
             up == IF v.int < 0 THEN 2 * r > p ELSE 2 * r >= p
             q1 == IF up THEN q + 1 ELSE q
         IN  IF q1 = Pow10(places) THEN Dec(v.int + 1, 0, places)
             ELSE Dec(v.int, q1, places)

RECURSIVE NatStr(_)
NatStr(n) ==
    IF n < 10 THEN <<Digits[n + 1]>>
    ELSE NatStr(n \div 10) \o <<Digits[(n % 10) + 1]>>

FracStr(f, places) ==
    [i \in 1..places |-> Digits[((f \div Pow10(places - i)) % 10) + 1]]

\* The decimal written with the fractional digits it has.
StringFixed_AsIs(v, places) ==
    IF v.int >= 0
    THEN NatStr(v.int) \o <<".">> \o FracStr(v.frac, v.digits)
    ELSE IF v.frac = 0
    THEN <<"-">> \o NatStr(0 - v.int) \o <<".">> \o FracStr(0, v.digits)
    ELSE <<"-">> \o NatStr(0 - v.int - 1) \o <<".">>
             \o FracStr(Pow10(v.digits) - v.frac, v.digits)

\* Decimal.StringFixed(places): rounded, with exactly places fractional digits.
StringFixed(v, places) ==
    LET r == Round(v, places)
    IN  IF r.int >= 0
        THEN NatStr(r.int) \o <<".">> \o FracStr(r.frac, places)
        ELSE IF r.frac = 0
        THEN <<"-">> \o NatStr(0 - r.int) \o <<".">> \o FracStr(0, places)
        ELSE <<"-">> \o NatStr(0 - r.int - 1) \o <<".">>
                 \o FracStr(Pow10(places) - r.frac, places)

Zero == <<"0">>

addDecimalStrings(a, b) ==
    LET a1 == IF a = <<>> THEN Zero ELSE a
        b1 == IF b = <<>> THEN Zero ELSE b
    IN  IF ~NewFromStringOk(a1) \/ ~NewFromStringOk(b1)
        THEN [ok |-> FALSE, val |-> <<>>]
        ELSE [ok |-> TRUE,
              val |-> StringFixed(Add(NewFromString(a1), NewFromString(b1)), FixedPlaces)]

\* ------------------------------------------------------------------ ledger
MaxEntries == 3        \* AddEntry calls started in one behaviour

Users == {"user1"}
Assets == {"BTC", "ETH"}
Amounts ==
    { <<"1", ".", "0">>,
      <<"0", ".", "0", "0", "0", "0", "0", "0", "0", "0", "5">>,
      <<"-", "0", ".", "5">>,
      <<"x">>,
      <<>> }

LedgerEntries == [user : Users, asset : Assets, amount : Amounts]
NoEntry == [user |-> "", asset |-> "", amount |-> <<>>]

ErrInvalidAmount == "invalid amount format"

\* Nobody holds the write lock.
NoBefore == [balances |-> EmptyMap, entries |-> <<>>]

\* No BalanceResponse has been returned.  A response's map is either a map
\* of its own (live = FALSE) or the ledger's map for the user (live = TRUE).
NoSnap == [user |-> "", live |-> FALSE, balances |-> EmptyMap, err |-> "none",
           scribbled |-> FALSE]

\* NewInMemoryLedger, and idle workers.
InitLedger ==
    /\ lmu = NoWorker
    /\ balances = EmptyMap
    /\ entries = <<>>
    /\ lpc = [w \in Workers |-> "idle"]
    /\ entry = [w \in Workers |-> NoEntry]
    /\ currentBalance = [w \in Workers |-> <<>>]
    /\ newBalance = [w \in Workers |-> <<>>]
    /\ lres = [w \in Workers |-> "none"]
    /\ lcalls = 0
    /\ before = NoBefore
    /\ snap = NoSnap
    /\ queries = 0

ParkedLedger == InitLedger

\* A call of AddEntry arrives at the lowest free worker.
AddEntry(w, e) ==
    /\ lpc[w] = "idle"
    /\ \A v \in Workers : v < w => lpc[v] # "idle"
    /\ lcalls < MaxEntries
    /\ lcalls' = lcalls + 1
    /\ lpc' = [lpc EXCEPT ![w] = "lock"]
    /\ entry' = [entry EXCEPT ![w] = e]
    /\ lres' = [lres EXCEPT ![w] = "none"]
    /\ UNCHANGED <<lmu, balances, entries, currentBalance, newBalance>>
    /\ UNCHANGED qvars
    /\ UNCHANGED <<vvars, svars, pvars, ivars>>

\* The lock taken while another writer holds it.
LedgerLock_Shared(w) ==
    /\ lpc[w] = "lock"
    /\ lmu' = w
    /\ lpc' = [lpc EXCEPT ![w] = "read"]
    /\ UNCHANGED <<balances, entries, entry, currentBalance, newBalance, lres, lcalls>>
    /\ before' = [balances |-> balances, entries |-> entries]
    /\ UNCHANGED <<snap, queries>>
    /\ UNCHANGED <<vvars, svars, pvars, ivars>>

\* l.mu.Lock()
LedgerLock(w) ==
    /\ lpc[w] = "lock"
    /\ lmu = NoWorker
    /\ lmu' = w
    /\ lpc' = [lpc EXCEPT ![w] = "read"]
    /\ UNCHANGED <<balances, entries, entry, currentBalance, newBalance, lres, lcalls>>
    /\ before' = [balances |-> balances, entries |-> entries]
    /\ UNCHANGED <<snap, queries>>
    /\ UNCHANGED <<vvars, svars, pvars, ivars>>

\* The assignment made to an empty map.
Put_Alone(m, k, v) == [x \in {k} |-> v]

\* The map m with key k set to v.
Put(m, k, v) == [x \in DOMAIN m \cup {k} |-> IF x = k THEN v ELSE m[x]]

\* LedgerRead opening the account before the amount is read.
LedgerRead_Opening(w) ==
    /\ lpc[w] = "read"
    /\ LET u == entry[w].user
           known == IF u \in DOMAIN balances THEN balances
                    ELSE Put(balances, u, EmptyMap)
           withUser == IF entry[w].asset \in DOMAIN known[u] THEN known
                       ELSE Put(known, u, Put(known[u], entry[w].asset, Zero))
       IN  /\ balances' = withUser
           /\ currentBalance' =
                [currentBalance EXCEPT ![w] =
                    IF entry[w].asset \in DOMAIN withUser[u]
                    THEN withUser[u][entry[w].asset] ELSE Zero]
    /\ lpc' = [lpc EXCEPT ![w] = "add"]
    /\ UNCHANGED <<lmu, entries, entry, newBalance, lres, lcalls>>
    /\ UNCHANGED qvars
    /\ UNCHANGED <<vvars, svars, pvars, ivars>>

\* The user's balance map is made if missing and the current balance read,
\* "0" standing for none.
LedgerRead(w) ==
    /\ lpc[w] = "read"
    /\ LET u == entry[w].user
           withUser == IF u \in DOMAIN balances THEN balances
                       ELSE Put(balances, u, EmptyMap)
       IN  /\ balances' = withUser
           /\ currentBalance' =
                [currentBalance EXCEPT ![w] =
                    IF entry[w].asset \in DOMAIN withUser[u]
                    THEN withUser[u][entry[w].asset] ELSE Zero]
    /\ lpc' = [lpc EXCEPT ![w] = "add"]
    /\ UNCHANGED <<lmu, entries, entry, newBalance, lres, lcalls>>
    /\ UNCHANGED qvars
    /\ UNCHANGED <<vvars, svars, pvars, ivars>>

\* The error return leaving the lock held.
LedgerAdd_Holding(w) ==
    /\ lpc[w] = "add"
    /\ LET sum == addDecimalStrings(currentBalance[w], entry[w].amount)
       IN  IF sum.ok
           THEN /\ newBalance' = [newBalance EXCEPT ![w] = sum.val]
                /\ lpc' = [lpc EXCEPT ![w] = "write"]
                /\ UNCHANGED <<lmu, entry, currentBalance, lres, before>>
           ELSE /\ lres' = [lres EXCEPT ![w] = ErrInvalidAmount]
                /\ lpc' = [lpc EXCEPT ![w] = "idle"]
                /\ entry' = [entry EXCEPT ![w] = NoEntry]
                /\ currentBalance' = [currentBalance EXCEPT ![w] = <<>>]
                /\ UNCHANGED <<lmu, newBalance, before>>
    /\ UNCHANGED <<balances, entries, lcalls, snap, queries>>
    /\ UNCHANGED <<vvars, svars, pvars, ivars>>

\* addDecimalStrings(currentBalance, entry.Amount); an error ends the call.
LedgerAdd(w) ==
    /\ lpc[w] = "add"
    /\ LET sum == addDecimalStrings(currentBalance[w], entry[w].amount)
       IN  IF sum.ok
           THEN /\ newBalance' = [newBalance EXCEPT ![w] = sum.val]
                /\ lpc' = [lpc EXCEPT ![w] = "write"]
                /\ UNCHANGED <<lmu, entry, currentBalance, lres, before>>
           ELSE /\ lres' = [lres EXCEPT ![w] = ErrInvalidAmount]
                /\ lmu' = NoWorker
                /\ lpc' = [lpc EXCEPT ![w] = "idle"]
                /\ entry' = [entry EXCEPT ![w] = NoEntry]
                /\ currentBalance' = [currentBalance EXCEPT ![w] = <<>>]
                /\ before' = NoBefore
                /\ UNCHANGED newBalance
    /\ UNCHANGED <<balances, entries, lcalls, snap, queries>>
    /\ UNCHANGED <<vvars, svars, pvars, ivars>>

\* The entry put at the head of the log.
Appended_Front(log, e) == <<e>> \o log

\* l.entries = append(l.entries, entry)
Appended(log, e) == Append(log, e)

\* The balance is stored, the entry appended, the lock released.
LedgerWrite(w) ==
    /\ lpc[w] = "write"
    /\ balances' = Put(balances, entry[w].user,
                       Put(balances[entry[w].user], entry[w].asset, newBalance[w]))
    /\ entries' = Appended(entries, entry[w])
    /\ lres' = [lres EXCEPT ![w] = Nil]
    /\ lmu' = NoWorker
    /\ lpc' = [lpc EXCEPT ![w] = "idle"]
    /\ entry' = [entry EXCEPT ![w] = NoEntry]
    /\ currentBalance' = [currentBalance EXCEPT ![w] = <<>>]
    /\ newBalance' = [newBalance EXCEPT ![w] = <<>>]
    /\ UNCHANGED lcalls
    /\ before' = NoBefore
    /\ UNCHANGED <<snap, queries>>
    /\ UNCHANGED <<vvars, svars, pvars, ivars>>

\* ----------------------------------------------------------------- queries
MaxQueries == 1        \* GetBalance calls made in one behaviour

QueryUsers == Users \cup {"user2"}

\* What a caller may write into a map it was handed.
Scribbles == { <<"9">> }

\* balancesCopy: a new map with the entries of m.
Copy(m) == [a \in DOMAIN m |-> m[a]]

\* A BalanceResponse whose map is the ledger's own map for the user.
BalanceResponse_Live(u) ==
    [user |-> u, live |-> TRUE, balances |-> EmptyMap, err |-> Nil, scribbled |-> FALSE]

\* GetBalance's return value: the user and a copy of the user's balances,
\* an empty map for a user the ledger does not know.
BalanceResponse(u) ==
    [user |-> u, live |-> FALSE,
     balances |-> IF u \in DOMAIN balances THEN Copy(balances[u]) ELSE EmptyMap,
     err |-> Nil, scribbled |-> FALSE]

\* The balances a response shows to the caller holding it.
View(sn) ==
    IF sn.live /\ sn.user \in DOMAIN balances THEN balances[sn.user] ELSE sn.balances

\* GetBalance changing the ledger as AddEntry does for a user it does not know.
Queried_Creating(m, u) == IF u \in DOMAIN m THEN m ELSE Put(m, u, EmptyMap)

\* The ledger's balances after GetBalance(u): as before.
Queried(m, u) == m

\* GetBalance under the read lock, which no writer holds.
GetBalance(u) ==
    /\ lmu = NoWorker
    /\ queries < MaxQueries
    /\ queries' = queries + 1
    /\ snap' = BalanceResponse(u)
    /\ balances' = Queried(balances, u)
    /\ UNCHANGED <<lmu, entries, lpc, entry, currentBalance, newBalance, lres, lcalls,
                   before>>
    /\ UNCHANGED <<vvars, svars, pvars, ivars>>

\* The caller writes v under asset a into the map it was handed.
Scribble(a, v) ==
    /\ snap # NoSnap
    /\ ~snap.scribbled
    /\ IF snap.live /\ snap.user \in DOMAIN balances
       THEN /\ balances' = Put(balances, snap.user, Put(balances[snap.user], a, v))
            /\ snap' = [snap EXCEPT !.scribbled = TRUE]
       ELSE /\ snap' = [snap EXCEPT !.balances = Put(@, a, v), !.scribbled = TRUE]
            /\ UNCHANGED balances
    /\ UNCHANGED <<lmu, entries, lpc, entry, currentBalance, newBalance, lres, lcalls,
                   before, queries>>
    /\ UNCHANGED <<vvars, svars, pvars, ivars>>

NextLedger ==
    \/ \E w \in Workers : \E e \in LedgerEntries : AddEntry(w, e)
    \/ \E w \in Workers : LedgerLock(w)
    \/ \E w \in Workers : LedgerRead(w)
    \/ \E w \in Workers : LedgerAdd(w)
    \/ \E w \in Workers : LedgerWrite(w)

\* The entries added while balances are being queried.
QueryEntries ==
    {e \in LedgerEntries : e.amount \notin {<<>>, <<"1", ".", "0">>}}

\* Entries for the accounts of two users.
AccountEntries ==
    { [user |-> u, asset |-> a, amount |-> m] :
      u \in QueryUsers, a \in Assets, m \in { <<"1", ".", "0">>, <<"-", "0", ".", "5">> } }

\* AddEntry calls for several users, any number at a time.
NextAccounts ==
    \/ \E w \in Workers : \E e \in AccountEntries : AddEntry(w, e)
    \/ \E w \in Workers : LedgerLock(w)
    \/ \E w \in Workers : LedgerRead(w)
    \/ \E w \in Workers : LedgerAdd(w)
    \/ \E w \in Workers : LedgerWrite(w)

\* AddEntry calls and balance queries, any number at a time.
NextQuery ==
    \/ \E w \in Workers : \E e \in QueryEntries : AddEntry(w, e)
    \/ \E w \in Workers : LedgerLock(w)
    \/ \E w \in Workers : LedgerRead(w)
    \/ \E w \in Workers : LedgerAdd(w)
    \/ \E w \in Workers : LedgerWrite(w)
    \/ \E u \in QueryUsers : GetBalance(u)
    \/ \E v \in Scribbles : Scribble("BTC", v)

\* Entries whose sum depends on the order in which they are added.
LinearEntries ==
    { e \in LedgerEntries :
        e.amount \in { <<"0", ".", "0", "0", "0", "0", "0", "0", "0", "0", "5">>,
                       <<"-", "0", ".", "5">> } }

\* AddEntry calls, any number at a time, and balance queries between them.
NextLinear ==
    \/ \E w \in Workers : \E e \in LinearEntries : AddEntry(w, e)
    \/ \E w \in Workers : LedgerLock(w)
    \/ \E w \in Workers : LedgerRead(w)
    \/ \E w \in Workers : LedgerAdd(w)
    \/ \E w \in Workers : LedgerWrite(w)
    \/ \E u \in QueryUsers : GetBalance(u)

\* ------------------------------------------------------------ goroutines
\* The requests and entries the handlers are given: a request that is
\* accepted, one with a forged signature and one without its nonce; an
\* entry that is booked and one whose amount is no decimal.
FairRequests ==
    { r \in Requests : r.ts = <<"0">> /\ r.nonce \in {<<>>, <<"a">>} /\ r.sig # <<>> }

FairEntries ==
    { e \in LedgerEntries : e.asset = "BTC" /\ e.amount \in { <<"1", ".", "0">>, <<"x">> } }

\* Fewer than MaxFairCalls calls have been made.
MaxFairCalls == 3
MoreCalls == calls + lcalls + queries < MaxFairCalls

\* A goroutine calls ValidateRequest when it is in no AddEntry.
Validating(w, r) == MoreCalls /\ lpc[w] = "idle" /\ ValidateRequest(w, r)

\* A goroutine calls AddEntry when it is in no ValidateRequest.
Booking(w, e) == MoreCalls /\ pc[w] = "idle" /\ AddEntry(w, e)

\* A goroutine calls GetBalance.
Asking(u) == MoreCalls /\ GetBalance(u)

\* Handlers validating, booking and querying side by side.
NextFair ==
    \/ \E w \in Workers : \E r \in FairRequests : Validating(w, r)
    \/ \E w \in Workers : Lock(w)
    \/ \E w \in Workers : Check(w)
    \/ \E w \in Workers : Record(w)
    \/ \E w \in Workers : Verify(w)
    \/ Deliver
    \/ \E w \in Workers : \E e \in FairEntries : Booking(w, e)
    \/ \E w \in Workers : LedgerLock(w)
    \/ \E w \in Workers : LedgerRead(w)
    \/ \E w \in Workers : LedgerAdd(w)
    \/ \E w \in Workers : LedgerWrite(w)
    \/ \E u \in Users : Asking(u)

\* A goroutine that can take its next step takes it in the end, a waiting
\* goroutine gets the lock once it stays free, and a caller takes the answer
\* it is given.  Nothing obliges a new call to be made.  LedgerAdd(w) can be
\* taken exactly while lpc[w] = "add", so its weak fairness is written as
\* the goroutine not staying there for ever.
Fairness ==
    /\ \A w \in Workers :
         /\ WF_vars(Lock(w)) /\ WF_vars(Check(w)) /\ WF_vars(Record(w))
         /\ WF_vars(Verify(w))
         /\ WF_vars(LedgerLock(w)) /\ WF_vars(LedgerRead(w))
         /\ []<>(lpc[w] # "add") /\ WF_vars(LedgerWrite(w))
    /\ WF_vars(Deliver)

\* ----------------------------------------------------------- json bodies
Quote == "\""

\* A JSON string, a member and an object as a client writes them.
Quoted(s) == <<Quote>> \o s \o <<Quote>>
Member(k, v) == Quoted(k) \o <<":">> \o v

RECURSIVE Joined(_)
Joined(ms) ==
    IF ms = <<>> THEN <<>>
    ELSE IF Len(ms) = 1 THEN ms[1]
    ELSE ms[1] \o <<",">> \o Joined(Tail(ms))

Object(ms) == <<"{">> \o Joined(ms) \o <<"}">>

\* The names of the three fields, from the struct tags of WebhookRequest.
UserKey == <<"u", "s", "e", "r">>
AssetKey == <<"a", "s", "s", "e", "t">>
AmountKey == <<"a", "m", "o", "u", "n", "t">>

\* The body of a webhook for user u, asset a and amount m.
WebhookBody(u, a, m) ==
    Object(<<Member(UserKey, Quoted(u)), Member(AssetKey, Quoted(a)),
             Member(AmountKey, Quoted(m))>>)

\* encoding/json folds the case of a key when no field matches it exactly.
Uppers == <<"A", "B", "C", "D", "E", "F", "G", "H", "I", "J", "K", "L", "M",
            "N", "O", "P", "Q", "R", "S", "T", "U", "V", "W", "X", "Y", "Z">>
Lowers == <<"a", "b", "c", "d", "e", "f", "g", "h", "i", "j", "k", "l", "m",
            "n", "o", "p", "q", "r", "s", "t", "u", "v", "w", "x", "y", "z">>

Lower(c) ==
    IF \E i \in DOMAIN Uppers : Uppers[i] = c
    THEN Lowers[CHOOSE i \in DOMAIN Uppers : Uppers[i] = c]
    ELSE c

EqualFold(a, b) ==
    Len(a) = Len(b) /\ \A i \in 1..Len(a) : Lower(a[i]) = Lower(b[i])

\* The position of the quote that closes a string, looked for from j on;
\* 0 when there is none.  The bodies hold no escape sequences.
RECURSIVE StringEnd(_, _)
StringEnd(s, j) ==
    IF j > Len(s) THEN 0
    ELSE IF s[j] = Quote THEN j
    ELSE StringEnd(s, j + 1)

\* The position of the last digit of the number that starts at i.
RECURSIVE NumberEnd(_, _)
NumberEnd(s, i) ==
    IF i < Len(s) /\ IsDigit(s[i + 1]) THEN NumberEnd(s, i + 1) ELSE i

BadValue == [ok |-> FALSE, kind |-> "none", val |-> <<>>, next |-> 0]

\* The scalar value that starts at i: a string or a number.
Value(s, i) ==
    IF i > Len(s) THEN BadValue
    ELSE IF s[i] = Quote
    THEN LET e == StringEnd(s, i + 1)
         IN  IF e = 0 THEN BadValue
             ELSE [ok |-> TRUE, kind |-> "string", val |-> SubSeq(s, i + 1, e - 1),
                   next |-> e + 1]
    ELSE IF IsDigit(s[i])
    THEN LET e == NumberEnd(s, i)
         IN  [ok |-> TRUE, kind |-> "number", val |-> SubSeq(s, i, e), next |-> e + 1]
    ELSE BadValue

BadObject == [ok |-> FALSE, members |-> <<>>]

\* The members of an object from position i on, after those in acc; the
\* closing brace must be the last character of the body.
RECURSIVE Members(_, _, _)
Members(s, i, acc) ==
    LET k == Value(s, i)
    IN  IF ~k.ok \/ k.kind # "string" THEN BadObject
        ELSE IF k.next > Len(s) \/ s[k.next] # ":" THEN BadObject
        ELSE LET v == Value(s, k.next + 1)
                 got == Append(acc, [key |-> k.val, kind |-> v.kind, val |-> v.val])
             IN  IF ~v.ok \/ v.next > Len(s) THEN BadObject
                 ELSE IF s[v.next] = "}"
                      THEN IF v.next = Len(s) THEN [ok |-> TRUE, members |-> got]
                           ELSE BadObject
                 ELSE IF s[v.next] = "," THEN Members(s, v.next + 1, got)
                 ELSE BadObject

\* The syntax check json.Unmarshal makes before it decodes.
Scanned(s) ==
    IF Len(s) < 2 \/ s[1] # "{" THEN BadObject
    ELSE IF s = <<"{", "}">> THEN [ok |-> TRUE, members |-> <<>>]
    ELSE Members(s, 2, <<>>)

\* entity.WebhookRequest before anything is decoded into it.
EmptyWebhook == [user |-> <<>>, asset |-> <<>>, amount |-> <<>>]

FieldKeys == [user |-> UserKey, asset |-> AssetKey, amount |-> AmountKey]

\* The field a key decodes into: the exact name first, else the folded one.
FieldOf(key) ==
    IF \E f \in DOMAIN FieldKeys : FieldKeys[f] = key
    THEN {f \in DOMAIN FieldKeys : FieldKeys[f] = key}
    ELSE {f \in DOMAIN FieldKeys : EqualFold(FieldKeys[f], key)}

\* The members decoded in order into the struct: a later member overwrites
\* an earlier one, and unknown keys are skipped.
RECURSIVE Fields(_, _)
Fields(ms, w) ==
    IF ms = <<>> THEN w
    ELSE LET m == ms[1]
             f == FieldOf(m.key)
         IN  Fields(Tail(ms),
                    IF f = {} \/ m.kind # "string" THEN w
                    ELSE [w EXCEPT ![CHOOSE x \in f : TRUE] = m.val])

\* A member that names a field but does not hold a string.
Mistyped(ms) ==
    \E i \in 1..Len(ms) : FieldOf(ms[i].key) # {} /\ ms[i].kind # "string"

\* Every body decoded as the empty struct.
Unmarshal_Empty(body) == [ok |-> TRUE, webhook |-> EmptyWebhook]

\* json.Unmarshal(body, &webhookReq)
Unmarshal(body) ==
    LET o == Scanned(body)
    IN  [ok |-> o.ok /\ ~Mistyped(o.members),
         webhook |-> IF o.ok THEN Fields(o.members, EmptyWebhook) ELSE EmptyWebhook]

\* --------------------------------------------------------------- pipeline
MaxHandled == 2        \* requests and direct calls served in one behaviour

StatusOK == 200
StatusBadRequest == 400
StatusUnauthorized == 401
StatusMethodNotAllowed == 405
StatusInternalServerError == 500

ErrMissingUser == "missing required field: user"
ErrMissingAsset == "missing required field: asset"
ErrMissingAmount == "missing required field: amount"

\* Validate looking at the amount first.
Validate_AmountFirst(w) ==
    IF w.amount = <<>> THEN ErrMissingAmount
    ELSE IF w.asset = <<>> THEN ErrMissingAsset
    ELSE IF w.user = <<>> THEN ErrMissingUser
    ELSE Nil

\* WebhookRequest.Validate
Validate(w) ==
    IF w.user = <<>> THEN ErrMissingUser
    ELSE IF w.asset = <<>> THEN ErrMissingAsset
    ELSE IF w.amount = <<>> THEN ErrMissingAmount
    ELSE Nil

\* IsValid writing the timestamp of a replay over the record it refuses.
IsValid_Refreshing(store, n, t, clock) ==
    IF n \in DOMAIN store /\ ~AgedOut(clock, store[n])
    THEN [ok |-> FALSE, nonces |-> [store EXCEPT ![n] = t]]
    ELSE [ok |-> TRUE, nonces |-> Recorded(Deleted(store, n), n, t, clock)]

\* NonceStore.IsValid run from lock to unlock.
IsValid(store, n, t, clock) ==
    IF n \in DOMAIN store /\ ~AgedOut(clock, store[n])
    THEN [ok |-> FALSE, nonces |-> store]
    ELSE [ok |-> TRUE, nonces |-> Recorded(Deleted(store, n), n, t, clock)]

\* ValidateRequest run from call to return: the error, and the nonce store
\* as the call leaves it.
Authenticated(r, store, clock, tol) ==
    IF HeaderChecks(r, clock, tol) # Nil
    THEN [err |-> HeaderChecks(r, clock, tol), nonces |-> store, recorded |-> FALSE]
    ELSE LET seen == IsValid(store, r.nonce, ParseInt(r.ts), clock)
         IN  [err |-> SignatureChecks(r, seen.ok), nonces |-> seen.nonces,
              recorded |-> seen.ok]

\* The validator called again when it has refused the request.
Attempted_Retried(r, store, clock, tol) ==
    LET one == Authenticated(r, store, clock, tol)
        two == Authenticated(r, one.nonces, clock, tol)
    IN  IF one.err = Nil
        THEN [err |-> one.err, nonces |-> one.nonces, recorded |-> one.recorded, asked |-> 1]
        ELSE [err |-> two.err, nonces |-> two.nonces,
              recorded |-> one.recorded \/ two.recorded, asked |-> 2]

\* The handler's one call of h.validator.ValidateRequest.
Attempted(r, store, clock, tol) ==
    LET one == Authenticated(r, store, clock, tol)
    IN  [err |-> one.err, nonces |-> one.nonces, recorded |-> one.recorded, asked |-> 1]

\* InMemoryLedger.AddEntry run from lock to unlock.
Booked(bal, log, e) ==
    LET withUser == IF e.user \in DOMAIN bal THEN bal ELSE Put(bal, e.user, EmptyMap)
        current == IF e.asset \in DOMAIN withUser[e.user]
                   THEN withUser[e.user][e.asset] ELSE Zero
        sum == addDecimalStrings(current, e.amount)
    IN  IF sum.ok
        THEN [err |-> Nil,
              balances |-> Put(withUser, e.user, Put(withUser[e.user], e.asset, sum.val)),
              entries |-> Appended(log, e)]
        ELSE [err |-> ErrInvalidAmount, balances |-> withUser, entries |-> log]

\* ProcessWebhookUseCase.Execute: the fields are validated and the entry
\* is handed to the ledger.
Processed(w, bal, log) ==
    IF Validate(w) # Nil
    THEN [err |-> Validate(w), balances |-> bal, entries |-> log]
    ELSE Booked(bal, log, [user |-> w.user, asset |-> w.asset, amount |-> w.amount])

\* The HTTP requests sent to /webhook.
User1 == <<"u", "s", "e", "r", "1">>
User2 == <<"u", "s", "e", "r", "2">>
BTC == <<"B", "T", "C">>
HookAmounts == { <<"1", "0", "0", ".", "5">>, <<"-", "0", ".", "5">>, <<"x">> }

PipelineBodies ==
    { WebhookBody(User1, BTC, m) : m \in HookAmounts }
    \cup { Object(<<Member(<<"U", "s", "e", "r">>, Quoted(User2)),
                    Member(<<"A", "S", "S", "E", "T">>, Quoted(BTC)),
                    Member(AmountKey, Quoted(<<"2">>)),
                    Member(<<"n", "o", "t", "e">>, <<"7">>)>>),
           Object(<<Member(UserKey, Quoted(User1)), Member(AmountKey, Quoted(<<"1">>))>>),
           Object(<<Member(UserKey, Quoted(User1)), Member(AssetKey, Quoted(BTC)),
                    Member(AmountKey, <<"1">>)>>),
           <<"{", Quote, "u">> }

HookRequests ==
    { [method |-> "POST", ts |-> <<"0">>, nonce |-> n, body |-> b,
       sig |-> computeSignature(Secret, <<"0">>, n, b)] :
      n \in { <<"a">>, <<"b">> }, b \in PipelineBodies }
    \cup { [method |-> "POST", ts |-> <<"0">>, nonce |-> <<"a">>, body |-> b,
            sig |-> computeSignature(WrongKey, <<"0">>, <<"a">>, b)] :
           b \in { WebhookBody(User1, BTC, <<"1", "0", "0", ".", "5">>) } }
    \cup { [method |-> "GET", ts |-> <<"0">>, nonce |-> <<"a">>, body |-> b,
            sig |-> computeSignature(Secret, <<"0">>, <<"a">>, b)] :
           b \in { WebhookBody(User1, BTC, <<"1", "0", "0", ".", "5">>) } }
    \cup { [method |-> "POST", ts |-> h[1], nonce |-> h[2], body |-> b,
            sig |-> IF h[3] THEN computeSignature(Secret, h[1], h[2], b) ELSE <<>>] :
           h \in { << <<>>, <<"a">>, TRUE>>, << <<"0">>, <<>>, TRUE>>,
                   << <<"0">>, <<"a">>, FALSE>>, << <<"x">>, <<"a">>, TRUE>> },
           b \in { WebhookBody(User1, BTC, <<"1", "0", "0", ".", "5">>) } }

\* The requests the use case is called with when it is called directly.
NoHook == [method |-> "", ts |-> <<>>, nonce |-> <<>>, sig |-> <<>>, body |-> <<>>]

DirectRequests ==
    { [user |-> User1, asset |-> BTC, amount |-> <<"1", "0", "0", ".", "5">>],
      [user |-> <<>>, asset |-> BTC, amount |-> <<"1", "0", "0", ".", "5">>],
      [user |-> User1, asset |-> <<>>, amount |-> <<"1", "0", "0", ".", "5">>],
      [user |-> User1, asset |-> BTC, amount |-> <<>>],
      [user |-> User1, asset |-> <<>>, amount |-> <<>>],
      EmptyWebhook }

Methods == { "GET", "POST" }
BalancePaths == { <<>>, User1, User2 }

NoReply ==
    [op |-> "none", status |-> 0, auth |-> "none", err |-> "none", at |-> 0,
     asked |-> 0, req |-> NoHook, hook |-> EmptyWebhook, user |-> <<>>, balances |-> EmptyMap]

ParkedPipeline == handled = 0 /\ reply = NoReply

\* The response and the state of the service after HandleWebhook has run.
Answered(r) ==
    LET auth == Attempted(r, nonces, now, tolerance)
        parsed == Unmarshal(r.body)
        done == Processed(parsed.webhook, balances, entries)
        same == [nonces |-> nonces, balances |-> balances, entries |-> entries]
        hook == [NoReply EXCEPT !.op = "webhook", !.req = r, !.at = now]
    IN  IF r.method # "POST"
        THEN [reply |-> [hook EXCEPT !.status = StatusMethodNotAllowed]] @@ same
        ELSE IF auth.err # Nil
        THEN [reply |-> [hook EXCEPT !.status = StatusUnauthorized, !.auth = auth.err,
                                     !.asked = auth.asked],
              nonces |-> auth.nonces, balances |-> balances, entries |-> entries]
        ELSE IF ~parsed.ok
        THEN [reply |-> [hook EXCEPT !.status = StatusBadRequest, !.auth = Nil,
                                     !.asked = auth.asked],
              nonces |-> auth.nonces, balances |-> balances, entries |-> entries]
        ELSE [reply |-> [hook EXCEPT !.status = IF done.err = Nil THEN StatusOK
                                                 ELSE StatusInternalServerError,
                                     !.auth = Nil, !.err = done.err,
                                     !.asked = auth.asked, !.hook = parsed.webhook],
              nonces |-> auth.nonces, balances |-> done.balances,
              entries |-> done.entries]

\* Handler.HandleWebhook, one request from arrival to response.
HandleWebhook(r) ==
    /\ last = NoCall
    /\ lmu = NoWorker
    /\ handled < MaxHandled
    /\ handled' = handled + 1
    /\ reply' = Answered(r).reply
    /\ nonces' = Answered(r).nonces
    /\ balances' = Answered(r).balances
    /\ entries' = Answered(r).entries
    /\ seenAt' = IF r.method = "POST" /\ Attempted(r, nonces, now, tolerance).recorded
                 THEN [k \in DOMAIN nonces' |-> IF k = r.nonce THEN now ELSE seenAt[k]]
                 ELSE seenAt
    /\ UNCHANGED <<now, tolerance, mu, pc, req, nonce, timestamp, isValid, began,
                   callNo, solo, prior, unseen, calls, accepted, first, last>>
    /\ UNCHANGED <<lmu, lpc, entry, currentBalance, newBalance, lres, lcalls>>
    /\ UNCHANGED <<svars, qvars, ivars>>

\* ProcessWebhookUseCase.Execute called by a caller other than the handler.
Execute(w) ==
    /\ last = NoCall
    /\ lmu = NoWorker
    /\ handled < MaxHandled
    /\ handled' = handled + 1
    /\ LET done == Processed(w, balances, entries)
       IN  /\ reply' = [NoReply EXCEPT !.op = "execute", !.err = done.err, !.at = now,
                                       !.hook = w]
           /\ balances' = done.balances
           /\ entries' = done.entries
    /\ UNCHANGED <<lmu, lpc, entry, currentBalance, newBalance, lres, lcalls>>
    /\ UNCHANGED <<vvars, svars, qvars, ivars>>

\* Handler.HandleBalance for GET /balance/{user}.
HandleBalance(m, u) ==
    /\ last = NoCall
    /\ lmu = NoWorker
    /\ handled < MaxHandled
    /\ handled' = handled + 1
    /\ LET asked == [NoReply EXCEPT !.op = "balance", !.at = now, !.user = u,
                                    !.req = [NoHook EXCEPT !.method = m]]
       IN  reply' = IF m # "GET"
                    THEN [asked EXCEPT !.status = StatusMethodNotAllowed]
                    ELSE IF u = <<>>
                    THEN [asked EXCEPT !.status = StatusBadRequest]
                    ELSE [asked EXCEPT !.status = StatusOK,
                                       !.err = BalanceResponse(u).err,
                                       !.balances = View(BalanceResponse(u))]
    /\ balances' = IF m = "GET" /\ u # <<>> THEN Queried(balances, u) ELSE balances
    /\ UNCHANGED <<lmu, entries, lpc, entry, currentBalance, newBalance, lres, lcalls>>
    /\ UNCHANGED <<vvars, svars, qvars, ivars>>

\* The service: webhooks, balance queries and direct calls of the use case,
\* one at a time, while the clock runs.
NextPipeline ==
    \/ \E r \in HookRequests : HandleWebhook(r)
    \/ \E w \in DirectRequests : Execute(w)
    \/ \E m \in Methods : \E u \in BalancePaths : HandleBalance(m, u)
    \/ Tick

\* -------------------------------------------------------------- instances
NumInstances == 2      \* validators and ledgers constructed
MaxInstanceCalls == 3  \* calls made on them in one behaviour
MaxPairCalls == 2      \* calls made on the pair of stores in one behaviour

Instances == 1..NumInstances

\* The two validators share their store.
StoreOf_Shared(i) == 1

\* nonceStore: NewNonceStore(): the store the i-th validator was given.
StoreOf(i) == i

\* balances: make(...), entries: make(...): the maps of the i-th ledger.
MapsOf(i) == i

InstanceRequests ==
    { r \in WellFormedRequests : r.ts = <<"0">> /\ r.nonce = <<"a">> }
    \cup { [ts |-> <<"0", "0">>, nonce |-> <<"a">>, body |-> b,
            sig |-> HMACSHA256Hex(Secret, t \o <<"\n", "a", "\n">> \o b)] :
           t \in { <<"0">>, <<"0", "0">> }, b \in Bodies }

InstanceEntries ==
    { e \in LedgerEntries : e.asset = "BTC" /\ e.amount \in { <<"1", ".", "0">>, <<"x">> } }

NoInstanceCall ==
    [op |-> "none", on |-> 0, err |-> "none", req |-> NoReq, at |-> 0,
     nonce |-> <<>>, ok |-> FALSE, lazy |-> FALSE, swept |-> FALSE]

\* The times of writing after a call that left the store as m: the nonce n
\* was written now if the call recorded it.
Seen(old, m, n, recorded) ==
    [k \in DOMAIN m |-> IF k = n /\ recorded THEN now ELSE old[k]]

\* No validator and no ledger has been used.
ParkedInstances ==
    /\ stores = [i \in Instances |-> EmptyMap]
    /\ ledgers = [i \in Instances |-> [balances |-> EmptyMap, entries |-> <<>>]]
    /\ iseen = [i \in Instances |-> EmptyMap]
    /\ icalls = 0
    /\ ilast = NoInstanceCall

\* ValidateRequest on the i-th validator, all built with the same secret.
ValidateOn(i, r) ==
    LET done == Authenticated(r, stores[StoreOf(i)], now, tolerance)
    IN  /\ last = NoCall
        /\ icalls < MaxInstanceCalls
        /\ icalls' = icalls + 1
        /\ stores' = [stores EXCEPT ![StoreOf(i)] = done.nonces]
        /\ iseen' = [iseen EXCEPT ![StoreOf(i)] = Seen(@, done.nonces, r.nonce, done.recorded)]
        /\ ilast' = [NoInstanceCall EXCEPT !.op = "validate", !.on = i, !.err = done.err,
                                           !.req = r, !.at = now]
        /\ UNCHANGED ledgers
        /\ UNCHANGED <<vvars, svars, lvars, qvars, pvars>>

\* AddEntry on the i-th ledger.
AddEntryOn(i, e) ==
    LET mine == ledgers[MapsOf(i)]
        done == Booked(mine.balances, mine.entries, e)
    IN  /\ last = NoCall
        /\ icalls < MaxInstanceCalls
        /\ icalls' = icalls + 1
        /\ ledgers' = [ledgers EXCEPT ![MapsOf(i)] =
                          [balances |-> done.balances, entries |-> done.entries]]
        /\ ilast' = [NoInstanceCall EXCEPT !.op = "add", !.on = i, !.err = done.err,
                                           !.at = now]
        /\ UNCHANGED <<stores, iseen>>
        /\ UNCHANGED <<vvars, svars, lvars, qvars, pvars>>

\* NonceStore.IsValid(nonce, timestamp) on the store of the i-th validator,
\* with a timestamp the validator would pass on.
IsValidOn(i, n, t) ==
    LET done == IsValid(stores[StoreOf(i)], n, t, now)
    IN  /\ last = NoCall
        /\ icalls < MaxInstanceCalls
        /\ ~OutOfTolerance(now, t, tolerance)
        /\ icalls' = icalls + 1
        /\ stores' = [stores EXCEPT ![StoreOf(i)] = done.nonces]
        /\ iseen' = [iseen EXCEPT ![StoreOf(i)] = Seen(@, done.nonces, n, done.ok)]
        /\ ilast' = [NoInstanceCall EXCEPT !.op = "isvalid", !.on = i, !.at = now,
                                           !.nonce = n, !.ok = done.ok]
        /\ UNCHANGED ledgers
        /\ UNCHANGED <<vvars, svars, lvars, qvars, pvars>>

\* A store that has recorded k nonces at time 0, under the timestamps their
\* requests claimed: the time of the request, or an hour later.  The nonces
\* are numbered; the nonce presented next is number 0.
Filled(k) == [n \in 1..k |-> n % 2]

\* The first store is one record short of the high-water mark, or at it.
InitSweep ==
    /\ InitValidator /\ ParkedSignature /\ ParkedLedger /\ ParkedPipeline
    /\ \E k \in {HighWaterMark - 1, HighWaterMark} :
         /\ stores = [i \in Instances |-> IF i = 1 THEN Filled(k) ELSE EmptyMap]
         /\ iseen = [i \in Instances |->
                       IF i = 1 THEN [n \in DOMAIN Filled(k) |-> 0] ELSE EmptyMap]
    /\ ledgers = [i \in Instances |-> [balances |-> EmptyMap, entries |-> <<>>]]
    /\ icalls = 0
    /\ ilast = NoInstanceCall

\* IsValid with the sweep of lines 49-52 left out: a record goes only when
\* its own nonce is presented again after it has aged out.
IsValidLazy(store, n, t, clock) ==
    IF n \in DOMAIN store /\ ~AgedOut(clock, store[n])
    THEN [ok |-> FALSE, nonces |-> store]
    ELSE [ok |-> TRUE, nonces |-> IF n \in DOMAIN store THEN [store EXCEPT ![n] = t]
                                  ELSE (n :> t) @@ store]

\* The same IsValid call on the first store, which sweeps, and on the
\* second, which never does.
IsValidBoth(n, t) ==
    LET sweeping == IsValid(stores[1], n, t, now)
        lazy == IsValidLazy(stores[2], n, t, now)
    IN  /\ last = NoCall
        /\ icalls < MaxPairCalls
        /\ ~OutOfTolerance(now, t, tolerance)
        /\ icalls' = icalls + 1
        /\ stores' = [stores EXCEPT ![1] = sweeping.nonces, ![2] = lazy.nonces]
        /\ ilast' = [NoInstanceCall EXCEPT !.op = "both", !.on = 1, !.at = now,
                                           !.nonce = n, !.ok = sweeping.ok,
                                           !.lazy = lazy.ok,
                                           !.swept = (n \in DOMAIN stores[2]
                                                      /\ n \notin DOMAIN stores[1])]
        /\ UNCHANGED <<ledgers, iseen>>
        /\ UNCHANGED <<vvars, svars, lvars, qvars, pvars>>

\* Two stores with the same records, both at the high-water mark.
InitLazy ==
    /\ InitValidator /\ ParkedSignature /\ ParkedLedger /\ ParkedPipeline
    /\ stores = [i \in Instances |-> IF i \in 1..2 THEN Filled(HighWaterMark) ELSE EmptyMap]
    /\ iseen = [i \in Instances |-> EmptyMap]
    /\ ledgers = [i \in Instances |-> [balances |-> EmptyMap, entries |-> <<>>]]
    /\ icalls = 0
    /\ ilast = NoInstanceCall

\* A new nonce or one of the first two records is presented to both stores.
NextLazy ==
    \/ \E n \in 0..2 : \E t \in {0, now} : IsValidBoth(n, t)
    \/ Tick

\* IsValid calls on a store near the high-water mark.
NextSweep ==
    \/ \E t \in 0..MaxClock : IsValidOn(1, 0, t)
    \/ Tick

\* IsValid calls for one nonce as time passes.
NextReuse ==
    \/ \E i \in Instances : \E t \in 0..MaxClock : IsValidOn(i, <<"a">>, t)
    \/ Tick

\* Calls on separately constructed validators and ledgers.
NextInstances ==
    \/ \E i \in Instances : \E r \in InstanceRequests : ValidateOn(i, r)
    \/ \E i \in Instances : \E e \in InstanceEntries : AddEntryOn(i, e)
    \/ Tick

\* Requests are served as they come, any number at a time.
NextValidator ==
    \/ \E w \in Workers : \E r \in WellFormedRequests : ValidateRequest(w, r)
    \/ \E w \in Workers : Lock(w)
    \/ \E w \in Workers : Check(w)
    \/ \E w \in Workers : Record(w)
    \/ \E w \in Workers : Verify(w)
    \/ Tick
    \/ Deliver

InitServing == InitValidator /\ ParkedSignature /\ ParkedLedger /\ ParkedPipeline
               /\ ParkedInstances

SpecValidator == InitServing /\ [][NextValidator]_vars

\* A request is taken up when no other is being served.
ServeAlone(w, r) ==
    /\ \A v \in Workers : pc[v] = "idle"
    /\ ValidateRequest(w, r)

\* Requests of every shape, served one at a time.
NextSerial ==
    \/ \E w \in Workers : \E r \in Requests : ServeAlone(w, r)
    \/ \E w \in Workers : Lock(w)
    \/ \E w \in Workers : Check(w)
    \/ \E w \in Workers : Record(w)
    \/ \E w \in Workers : Verify(w)
    \/ Tick
    \/ Deliver

SpecSerial == InitServing /\ [][NextSerial]_vars

InitSigning == InitValidator /\ InitSignature /\ ParkedLedger /\ ParkedPipeline
               /\ ParkedInstances

SpecSignature == InitSigning /\ [][NextSignature]_vars

InitBooking == InitValidator /\ ParkedSignature /\ InitLedger /\ ParkedPipeline
               /\ ParkedInstances

SpecLedger == InitBooking /\ [][NextLedger]_vars

SpecQuery == InitBooking /\ [][NextQuery]_vars

SpecAccounts == InitBooking /\ [][NextAccounts]_vars

SpecFair == InitBooking /\ [][NextFair]_vars /\ Fairness

SpecLinear == InitBooking /\ [][NextLinear]_vars

InitInstances == InitValidator /\ ParkedSignature /\ ParkedLedger /\ ParkedPipeline
                 /\ ParkedInstances

SpecInstances == InitInstances /\ [][NextInstances]_vars

SpecReuse == InitInstances /\ [][NextReuse]_vars

SpecSweep == InitSweep /\ [][NextSweep]_vars

SpecLazy == InitLazy /\ [][NextLazy]_vars

InitService == InitValidator /\ ParkedSignature /\ ParkedLedger /\ ParkedPipeline
               /\ ParkedInstances

SpecPipeline == InitService /\ [][NextPipeline]_vars

\* ============================================================ properties
\* The request carries the signature the shared secret gives its content.
CorrectlySigned(r) == r.sig = computeSignature(Secret, r.ts, r.nonce, r.body)

Distance(a, b) == IF a < b THEN b - a ELSE a - b

\* The claimed timestamp is no further than the tolerance from the clock.
WithinTolerance(r, clock) ==
    ParseIntOk(r.ts) /\ Distance(clock, ParseInt(r.ts)) <= tolerance

AllHeaders(r) == r.ts # <<>> /\ r.nonce # <<>> /\ r.sig # <<>>

\* C1: a correctly signed request within tolerance is accepted by the first
\* call on a fresh validator, and the identical request presented again at
\* once is refused as a duplicate nonce.
C1_AcceptedExactlyOnce ==
    /\ (last.no = 1 /\ last.solo /\ AllHeaders(last.req) /\ CorrectlySigned(last.req)
          /\ WithinTolerance(last.req, last.began))
       => last.res = Nil
    /\ (last.no = 2 /\ last.solo /\ first.req = last.req
          /\ first.began = last.began /\ now = last.began)
       => last.res = ErrDuplicateNonce

\* C2: a request that has been accepted is never accepted again by a later
\* call, whatever the tolerance and the clock: the later call is refused as a
\* duplicate nonce or as out of tolerance.
C2_NoReplayAccepted ==
    last.prior => last.res \in {ErrDuplicateNonce, ErrTolerance}

\* C3: of the callers that ask IsValid at the same time about a nonce the
\* store has not seen, no two are told true.
C3_ExactlyOneWins ==
    \A w1 \in Workers, w2 \in Workers :
        (w1 # w2 /\ pc[w1] = "verify" /\ pc[w2] = "verify"
            /\ nonce[w1] = nonce[w2] /\ unseen[w1] /\ unseen[w2])
        => ~(isValid[w1] /\ isValid[w2])

\* C4: the first IsValid(n, t) on a store with no record of n returns true,
\* and a second IsValid(n, t) made at once returns false, for every t.
C4_FirstTrueSecondFalse ==
    /\ \A w \in Workers :
         (pc[w] = "verify" /\ solo[w] /\ unseen[w]) => isValid[w]
    /\ (last.no = 2 /\ last.solo /\ last.asked
          /\ first.req.nonce = last.req.nonce /\ first.req.ts = last.req.ts
          /\ first.began = last.began /\ now = last.began)
       => ~last.isValid

\* C5: with the three headers present and a decimal timestamp t, the call
\* fails as out of tolerance exactly when |now - t| exceeds the tolerance.
C5_ToleranceExact ==
    (last.no # 0 /\ AllHeaders(last.req) /\ ParseIntOk(last.req.ts))
    => (last.res = ErrTolerance <=> ~WithinTolerance(last.req, last.began))

\* The checks of ValidateRequest in their documented order, each with
\* whether the call c fails it.
OrderedChecks(c) ==
    << <<ErrMissingTimestamp, c.req.ts = <<>> >>,
       <<ErrMissingNonce, c.req.nonce = <<>> >>,
       <<ErrMissingSignature, c.req.sig = <<>> >>,
       <<ErrTimestampFormat, ~ParseIntOk(c.req.ts)>>,
       <<ErrTolerance, IF ParseIntOk(c.req.ts)
                       THEN OutOfTolerance(c.began, ParseInt(c.req.ts), tolerance)
                       ELSE TRUE>>,
       <<ErrDuplicateNonce, ~c.isValid>>,
       <<ErrInvalidSignature, ~CorrectlySigned(c.req)>> >>

FirstFailure(c) ==
    LET failing == {i \in 1..7 : OrderedChecks(c)[i][2]}
    IN  IF failing = {} THEN Nil
        ELSE OrderedChecks(c)[CHOOSE i \in failing : \A j \in failing : i <= j][1]

\* C7: the call returns the error of the first check that fails, in the
\* order missing timestamp, missing nonce, missing signature, timestamp
\* format, tolerance, duplicate nonce, signature; the seven errors differ.
C7_FirstFailingCheck ==
    /\ last.no # 0 => last.res = FirstFailure(last)
    /\ Cardinality({OrderedChecks(last)[i][1] : i \in 1..7} \cup {Nil}) = 8

\* A replayed nonce with a wrong signature is reported as a duplicate nonce.
C7_Witness ==
    /\ last.res = ErrDuplicateNonce
    /\ ~CorrectlySigned(last.req)

\* C8: the store holds a record of a nonce only if a request with that nonce
\* was accepted, and a request is refused as a duplicate only then.
C8_RecordOnlyIfAccepted ==
    /\ (\A w \in Workers : pc[w] = "idle")
       => \A n \in DOMAIN nonces : \E r \in accepted : r.nonce = n
    /\ last.res = ErrDuplicateNonce
       => \E r \in accepted : r.nonce = last.req.nonce

\* C9: a nonce recorded at wall-clock time T is refused by every IsValid
\* made before T plus one hour: a lookup lets a recorded nonce through only
\* from T + Hour on.
C9_AgeFromFirstSeen ==
    [][\A w \in Workers :
          (pc[w] = "check" /\ pc'[w] = "record" /\ nonce[w] \in DOMAIN nonces)
          => now >= seenAt[nonce[w]] + Hour]_vars

NoLineFeed(s) == \A i \in 1..Len(s) : s[i] # "\n"

SamePair(a, b) == a.ts = b.ts /\ a.nonce = b.nonce

\* C6: the signature a client made for one request is accepted for that
\* request and refused for every request with a different (timestamp, nonce)
\* pair, whatever the bodies, when the nonces hold no line feed.
C6_SignatureBoundToPair ==
    (sigResult # "none"
        /\ signature = computeSignature(Secret, sigA.ts, sigA.nonce, sigA.body))
    => /\ SignatureChecks(Signed(sigA, signature), TRUE) = Nil
       /\ (~SamePair(sigA, sigB) /\ NoLineFeed(sigA.nonce) /\ NoLineFeed(sigB.nonce))
          => sigResult = ErrInvalidSignature

\* Two pairs that differ only in where the timestamp ends and the nonce
\* begins: the signature made for one has been refused for the other.
C6_Witness ==
    /\ sigResult = ErrInvalidSignature
    /\ signature = computeSignature(Secret, sigA.ts, sigA.nonce, sigA.body)
    /\ ~SamePair(sigA, sigB)
    /\ NoLineFeed(sigA.nonce) /\ NoLineFeed(sigB.nonce)
    /\ sigA.ts \o sigA.nonce \o sigA.body = sigB.ts \o sigB.nonce \o sigB.body

\* C6 as stated, for every nonce: the signature made for one request is
\* refused for every request with a different (timestamp, nonce) pair.
C6_AnyNonce ==
    (sigResult # "none"
        /\ signature = computeSignature(Secret, sigA.ts, sigA.nonce, sigA.body)
        /\ ~SamePair(sigA, sigB))
    => sigResult = ErrInvalidSignature

RECURSIVE Times(_, _)
Times(n, v) == IF n = 1 THEN v ELSE Add(Times(n - 1, v), v)

\* C10: when every entry of the audit trail is the same addition of A to one
\* (user, asset) and no call is in progress, the balance is N times A to
\* eight places, N being the number of additions.
C10_SumOfEqualAdditions ==
    (/\ \A w \in Workers : lpc[w] = "idle"
     /\ entries # <<>>
     /\ \A i \in 1..Len(entries) : entries[i] = entries[1]
     /\ NewFromStringOk(entries[1].amount))
    => balances[entries[1].user][entries[1].asset]
         = StringFixed(Times(Len(entries), NewFromString(entries[1].amount)), FixedPlaces)

\* The decimals x and y are the same number.
SameValue(x, y) ==
    LET d == Max(x.digits, y.digits)
    IN  /\ x.int = y.int
        /\ x.frac * Pow10(d - x.digits) = y.frac * Pow10(d - y.digits)

\* The amount has at most eight fractional digits.
FewDigits(a) == DotAt(a) = {} \/ Len(a) - (CHOOSE i \in DotAt(a) : TRUE) <= FixedPlaces

\* C11: after AddEntry of a and then of b to one (user, asset) with no
\* balance before, the stored balance is the exact sum a + b to eight places.
C11_SumOfTwo ==
    (/\ \A w \in Workers : lpc[w] = "idle"
     /\ Len(entries) = 2
     /\ entries[1].user = entries[2].user /\ entries[1].asset = entries[2].asset
     /\ NewFromStringOk(entries[1].amount) /\ NewFromStringOk(entries[2].amount))
    => balances[entries[1].user][entries[1].asset]
         = StringFixed(Add(NewFromString(entries[1].amount),
                           NewFromString(entries[2].amount)), FixedPlaces)

\* C12: an AddEntry that returns an error leaves balances, known users and
\* audit log as it found them; one that returns nil has stored the balance
\* and appended its entry.
C12_AllOrNothing ==
    [][\A w \in Workers :
          /\ (lpc[w] = "add" /\ lpc'[w] = "idle")
             => (balances' = before.balances /\ entries' = before.entries)
          /\ (lpc[w] = "write" /\ lpc'[w] = "idle")
             => /\ entries' = Append(before.entries, entry[w])
                /\ balances'[entry[w].user][entry[w].asset] = newBalance[w]]_vars

\* C13: AddEntry returns the invalid-amount error exactly for the amounts,
\* the empty one included, that are not decimal numbers.
C13_ErrorIffNotDecimal ==
    [][\A w \in Workers :
          (lpc[w] = "add" /\ lpc'[w] # "add")
          => (lres'[w] = ErrInvalidAmount <=> ~NewFromStringOk(entry[w].amount))]_vars

\* The amount is a decimal below zero or minus zero.
IsDebit(a) == NewFromStringOk(a) /\ a[1] = "-"

C19_AppendOnly ==
    [][/\ \/ entries' = entries
          \/ \E w \in Workers :
               lres'[w] = Nil /\ lres[w] # Nil /\ entries' = Append(entries, entry[w])
       /\ \A w \in Workers :
            /\ (lres'[w] = ErrInvalidAmount /\ lres[w] # ErrInvalidAmount)
               => entries' = entries
            /\ (lres'[w] = Nil /\ lres[w] # Nil)
               => entries' = Append(entries, entry[w])]_vars

\* Two different entries have been accepted and a third was refused.
C19_Witness ==
    /\ Len(entries) = 2
    /\ entries[1] # entries[2]
    /\ \E w \in Workers : lres[w] = ErrInvalidAmount

\* C16: writing into the map GetBalance returned leaves the ledger's
\* balances as they are, and no later step of the ledger changes what the
\* returned map shows.
C16_SnapshotIndependent ==
    [][/\ (snap'.scribbled /\ ~snap.scribbled) => balances' = balances
       /\ snap' = snap => View(snap)' = View(snap)]_vars

\* The caller has written into a returned map that lacks an account the
\* ledger has since gained, and the ledger's balance is not what was written.
C16_Witness ==
    /\ snap.scribbled
    /\ snap.user \in DOMAIN balances
    /\ DOMAIN balances[snap.user] = Assets
    /\ DOMAIN View(snap) = {"BTC"}
    /\ View(snap)["BTC"] # balances[snap.user]["BTC"]

\* C17: GetBalance changes neither balances, known users nor audit log,
\* returns no error, and returns an empty map for a user none of whose
\* entries was accepted.
C17_QueryReadsOnly ==
    [][queries' # queries
       => /\ balances' = balances
          /\ entries' = entries
          /\ snap'.err = Nil
          /\ (\A i \in 1..Len(entries) : entries[i].user # snap'.user)
             => View(snap)' = EmptyMap]_vars

\* A user unknown to a ledger that has entries got an empty map.
C17_Witness ==
    /\ snap.user = "user2"
    /\ snap.err = Nil
    /\ snap.balances = EmptyMap
    /\ entries # <<>>
    /\ "user2" \notin DOMAIN balances

\* The string is an optional minus sign, one or more digits, a point and
\* exactly eight digits.
EightPlaces(b) ==
    /\ Len(b) > FixedPlaces + 1
    /\ b[Len(b) - FixedPlaces] = "."
    /\ \A i \in (Len(b) - FixedPlaces + 1)..Len(b) : IsDigit(b[i])
    /\ LET whole == Unsigned(SubSeq(b, 1, Len(b) - FixedPlaces - 1))
       IN  whole # <<>> /\ b[1] # "+" /\ \A i \in 1..Len(whole) : IsDigit(whole[i])

\* C18: every stored balance, and every balance in a map GetBalance has
\* returned, has exactly eight fractional digits.
C18_EightFractionalDigits ==
    /\ \A u \in DOMAIN balances : \A a \in DOMAIN balances[u] :
         EightPlaces(balances[u][a])
    /\ (snap # NoSnap /\ ~snap.scribbled)
       => \A a \in DOMAIN View(snap) : EightPlaces(View(snap)[a])

\* A returned map holds a balance below zero that came from an amount with
\* nine fractional digits.
C18_Witness ==
    /\ snap # NoSnap /\ ~snap.scribbled
    /\ "BTC" \in DOMAIN View(snap)
    /\ View(snap)["BTC"][1] = "-"
    /\ \E i \in 1..Len(entries) : ~FewDigits(entries[i].amount)

\* C15: an entry is validated field by field and handed to the ledger only
\* in a call in which ValidateRequest has accepted the request: every step
\* of the webhook pipeline that validates fields, calls AddEntry or changes
\* the ledger follows a successful authentication of that request.
C15_AuthenticatedFirst ==
    [][(/\ handled' # handled
        /\ reply'.op # "balance"
        /\ (entries' # entries \/ balances' # balances \/ reply'.err # "none"))
       => reply'.auth = Nil]_vars

\* The request is a POST with all headers, signed with the shared secret,
\* and its timestamp is within tolerance of the clock.
GoodHook(r, clock) ==
    r.method = "POST" /\ AllHeaders(r) /\ CorrectlySigned(r) /\ WithinTolerance(r, clock)

\* b is the amount m written with exactly eight fractional digits.
Rendered(b, m) == EightPlaces(b) /\ SameValue(NewFromString(b), NewFromString(m))

\* C20: on a fresh service a correctly signed, fresh webhook naming user u,
\* asset a and a decimal amount m of at most eight fractional digits is
\* answered 200, and a balance query for u that follows it is answered with
\* exactly the mapping from a to m written with eight fractional digits.
C20_EndToEnd ==
    [][\A u \in {User1, User2} : \A a \in {BTC} :
         \A m \in {x \in HookAmounts : NewFromStringOk(x) /\ FewDigits(x)} :
           /\ (/\ handled = 0 /\ handled' = 1
               /\ reply'.op = "webhook"
               /\ GoodHook(reply'.req, now)
               /\ reply'.req.body = WebhookBody(u, a, m))
              => /\ reply'.status = StatusOK
                 /\ DOMAIN balances' = {u}
                 /\ DOMAIN balances'[u] = {a}
                 /\ Rendered(balances'[u][a], m)
           /\ (/\ handled = 1 /\ handled' = 2
               /\ reply.op = "webhook"
               /\ GoodHook(reply.req, reply.at)
               /\ reply.req.body = WebhookBody(u, a, m)
               /\ reply'.op = "balance"
               /\ reply'.req.method = "GET"
               /\ reply'.user = u)
              => /\ reply'.status = StatusOK
                 /\ DOMAIN reply'.balances = {a}
                 /\ Rendered(reply'.balances[a], m)]_vars

\* The webhook for user1, BTC, 100.5 was served and recorded its nonce, and
\* the balance query that followed showed 100.50000000.
C20_Witness ==
    /\ handled = 2
    /\ nonces # EmptyMap
    /\ entries = <<[user |-> User1, asset |-> BTC, amount |-> <<"1", "0", "0", ".", "5">>]>>
    /\ reply.op = "balance"
    /\ reply.user = User1
    /\ reply.status = StatusOK
    /\ DOMAIN reply.balances = {BTC}
    /\ reply.balances[BTC] = <<"1", "0", "0", ".", "5", "0", "0", "0", "0", "0", "0", "0">>

\* The call handed a WebhookRequest to the use case in this step.
Executes ==
    /\ handled' # handled
    /\ \/ reply'.op = "execute"
       \/ reply'.op = "webhook" /\ reply'.status \in {StatusOK, StatusInternalServerError}

\* C21: Execute reports the first empty field in the order user, asset,
\* amount, each with its own error, and a request with an empty field
\* leaves balances and audit log as they were.
C21_FirstEmptyField ==
    [][Executes =>
        LET w == reply'.hook
            e == reply'.err
        IN  /\ (e = ErrMissingUser) <=> (w.user = <<>>)
            /\ (e = ErrMissingAsset) <=> (w.user # <<>> /\ w.asset = <<>>)
            /\ (e = ErrMissingAmount) <=> (w.user # <<>> /\ w.asset # <<>> /\ w.amount = <<>>)
            /\ Cardinality({ErrMissingUser, ErrMissingAsset, ErrMissingAmount, Nil,
                            ErrInvalidAmount}) = 5
            /\ (<<>> \in {w.user, w.asset, w.amount})
               => (balances' = balances /\ entries' = entries)]_vars

\* A request with all three fields empty was refused for its user while the
\* ledger held an entry.
C21_Witness ==
    /\ reply.op = "execute"
    /\ reply.hook = EmptyWebhook
    /\ reply.err = ErrMissingUser
    /\ Len(entries) = 1
    /\ DOMAIN balances = {User1}

\* The call of the validator a POST to /webhook leads to, as the validator
\* finds the request and its store in this state.
Inbound(r) ==
    [req |-> r, began |-> now,
     isValid |-> ~(r.nonce \in DOMAIN nonces /\ ~AgedOut(now, nonces[r.nonce]))]

\* C22: a request the validator refuses, whichever check fails, is answered
\* 401 with the error of that check after exactly one call of the validator,
\* and nothing further is done for it: the body is not decoded and the
\* ledger is unchanged.
C22_FailureTerminal ==
    [][(/\ handled' # handled
        /\ reply'.op = "webhook"
        /\ reply'.req.method = "POST"
        /\ FirstFailure(Inbound(reply'.req)) # Nil)
       => /\ reply'.status = StatusUnauthorized
          /\ reply'.auth = FirstFailure(Inbound(reply'.req))
          /\ reply'.asked = 1
          /\ reply'.hook = EmptyWebhook
          /\ balances' = balances
          /\ entries' = entries]_vars

\* A webhook was booked and its replay, correctly signed, was answered 401.
C22_Witness ==
    /\ reply.op = "webhook"
    /\ reply.status = StatusUnauthorized
    /\ reply.auth = ErrDuplicateNonce
    /\ CorrectlySigned(reply.req)
    /\ Len(entries) = 1
    /\ reply.req.nonce \in DOMAIN nonces

\* C23: an authenticated request whose transaction lacks a field is answered
\* with a client error (4xx), which differs from the status that answers an
\* amount the ledger cannot read.
C23_MissingFieldClientError ==
    [][(/\ handled' # handled
        /\ reply'.op = "webhook"
        /\ reply'.auth = Nil
        /\ reply'.err \in {ErrMissingUser, ErrMissingAsset, ErrMissingAmount})
       => /\ reply'.status \in 400..499
          /\ reply'.status # StatusInternalServerError]_vars

\* The accounts of a ledger: its (user, asset) pairs.
Accounts(bal) == { p \in (DOMAIN bal) \X Assets : p[2] \in DOMAIN bal[p[1]] }

\* C24: an AddEntry for (u, a) that succeeds leaves every other account as
\* the call found it: no other account appears, disappears or changes.
C24_OnlyOneAccount ==
    [][\A w \in Workers :
         (lpc[w] = "write" /\ lpc'[w] = "idle")
         => LET mine == <<entry[w].user, entry[w].asset>>
            IN  /\ Accounts(balances') \ {mine} = Accounts(before.balances) \ {mine}
                /\ \A p \in Accounts(balances') \ {mine} :
                     balances'[p[1]][p[2]] = before.balances[p[1]][p[2]]
                /\ mine \in Accounts(balances')]_vars

\* Three entries were booked on three accounts of two users.
C24_Witness ==
    /\ Len(entries) = 3
    /\ DOMAIN balances = QueryUsers
    /\ Cardinality(Accounts(balances)) = 3
    /\ \A w \in Workers : lpc[w] = "idle"

\* C25: a snapshot for u holds asset a exactly if an AddEntry for (u, a) has
\* succeeded, and no step removes an account from the ledger, so an account
\* once shown is in every later snapshot.
C25_LazyNeverDeleted ==
    [][/\ queries' # queries
          => \A a \in Assets :
               a \in DOMAIN View(snap)'
               <=> \E i \in 1..Len(entries) :
                     entries[i].user = snap'.user /\ entries[i].asset = a
       /\ Accounts(balances) \subseteq Accounts(balances')]_vars

\* A snapshot shows one account while an AddEntry for the other asset of
\* the user has failed.
C25_Witness ==
    /\ snap # NoSnap
    /\ ~snap.scribbled
    /\ DOMAIN View(snap) = {"BTC"}
    /\ \E w \in Workers : lres[w] = ErrInvalidAmount
    /\ \A i \in 1..Len(entries) : entries[i].asset = "BTC"
    /\ lcalls > Len(entries) + Cardinality({w \in Workers : lpc[w] # "idle"})

\* C26: a call on one validator or ledger changes the store and the maps of
\* no other, and a correctly signed request within tolerance whose nonce the
\* validator called has not recorded is accepted, whatever the other
\* validators have recorded.
C26_InstancesIndependent ==
    [][icalls' # icalls
       => LET i == ilast'.on
          IN  /\ \A j \in Instances \ {i} : stores'[j] = stores[j] /\ ledgers'[j] = ledgers[j]
              /\ ilast'.op = "validate" => ledgers' = ledgers
              /\ ilast'.op = "add" => stores' = stores
              /\ (/\ ilast'.op = "validate"
                  /\ CorrectlySigned(ilast'.req)
                  /\ WithinTolerance(ilast'.req, now)
                  /\ ilast'.req.nonce \notin DOMAIN stores[i])
                 => ilast'.err = Nil]_vars

\* The second validator accepted a nonce the first holds, and the first
\* ledger holds an entry while the second is empty.
C26_Witness ==
    /\ ilast.op = "validate"
    /\ ilast.on = 2
    /\ ilast.err = Nil
    /\ ilast.req.nonce \in DOMAIN stores[1]
    /\ ilast.req.nonce \in DOMAIN stores[2]
    /\ ledgers[1].entries # <<>>
    /\ ledgers[2].balances = EmptyMap

\* C27: a request that reaches the signature check is accepted exactly if
\* its X-Signature is the hex HMAC-SHA256, keyed with the secret, of the
\* X-Timestamp as received, a line feed, the nonce, a line feed and the body
\* as received; otherwise it is refused as an invalid signature.
C27_ExactMessage ==
    [][(/\ icalls' # icalls
        /\ ilast'.op = "validate"
        /\ HeaderChecks(ilast'.req, now, tolerance) = Nil
        /\ ilast'.req.nonce \notin DOMAIN stores[ilast'.on])
       => LET r == ilast'.req
              expected == HMACSHA256Hex(Secret,
                              r.ts \o <<"\n">> \o r.nonce \o <<"\n">> \o r.body)
          IN  /\ ilast'.err = Nil <=> r.sig = expected
              /\ ilast'.err \in {Nil, ErrInvalidSignature}]_vars

\* A timestamp written with a leading zero was accepted with the signature
\* over the header as sent.
C27_Witness ==
    /\ ilast.op = "validate"
    /\ ilast.err = Nil
    /\ ilast.req.ts = <<"0", "0">>
    /\ ilast.req.nonce \in DOMAIN stores[ilast.on]

\* C28: IsValid for a nonce whose record was written more than the
\* retention window ago returns true and writes the record afresh, and
\* IsValid for a nonce whose record was written at this very instant
\* returns false.
C28_ReusableAfterAgeing ==
    [][(/\ icalls' # icalls
        /\ ilast'.op = "isvalid"
        /\ ilast'.nonce \in DOMAIN stores[ilast'.on])
       => LET k == ilast'.on
              n == ilast'.nonce
          IN  /\ (now - iseen[k][n] > Hour) => (ilast'.ok /\ iseen'[k][n] = now)
              /\ (iseen[k][n] = now) => ~ilast'.ok]_vars

\* C30: an accepting IsValid call that brings the store above the
\* high-water mark returns with no record in the store that was written
\* longer ago than the retention window; one that leaves the store at or
\* below the mark removes no record of another nonce.
C30_SweepAboveMark ==
    [][(/\ icalls' # icalls
        /\ ilast'.op = "isvalid"
        /\ ilast'.ok)
       => LET k == ilast'.on
              n == ilast'.nonce
          IN  IF Cardinality(DOMAIN stores[k] \cup {n}) > HighWaterMark
              THEN \A x \in DOMAIN stores'[k] : ~(now - iseen'[k][x] > Hour)
              ELSE \A x \in DOMAIN stores[k] \ {n} :
                     x \in DOMAIN stores'[k] /\ stores'[k][x] = stores[k][x]]_vars

\* C31: the store that sweeps and the store that only evicts on encounter
\* give every call the same answer, and a record the sweeping store has
\* lost and the other still holds is one that has aged out.
C31_SweepInvisible ==
    [][(icalls' # icalls /\ ilast'.op = "both")
       => /\ ilast'.ok = ilast'.lazy
          /\ \A x \in DOMAIN stores'[2] \ DOMAIN stores'[1] :
                AgedOut(now, stores'[2][x])]_vars

\* A nonce whose record the sweep had removed, and the other store still
\* held, was presented and accepted.
C31_Witness ==
    /\ ilast.op = "both"
    /\ ilast.swept
    /\ ilast.ok
    /\ ilast.lazy

\* The balances after the entries of the log have been added one after the
\* other, each by a whole AddEntry, to an empty ledger.
RECURSIVE Replayed(_)
Replayed(log) ==
    IF log = <<>> THEN EmptyMap
    ELSE Booked(Replayed(SubSeq(log, 1, Len(log) - 1)), <<>>, log[Len(log)]).balances

\* The accounts of user u in the balances bal.
Shown(bal, u) == IF u \in DOMAIN bal THEN bal[u] ELSE EmptyMap

\* C32: the audit log grows by the entry of the writer holding the lock, so
\* it lists the accepted entries in the order their calls took the lock, and
\* the map a GetBalance returns is what adding the entries of the log at that
\* moment one after the other gives for the user.
C32_Linearized ==
    [][/\ queries' # queries
          => snap'.balances = Shown(Replayed(entries), snap'.user)
       /\ entries' # entries
          => lmu # NoWorker /\ entries' = Append(entries, entry[lmu])]_vars

\* A snapshot taken between two accepted entries of its user, while a
\* further AddEntry was under way: it shows the first entry and not the second.
C32_Witness ==
    /\ snap # NoSnap
    /\ ~snap.scribbled
    /\ Len(entries) = 2
    /\ entries[1].user = snap.user
    /\ entries[2].user = snap.user
    /\ snap.balances = Shown(Replayed(SubSeq(entries, 1, 1)), snap.user)
    /\ snap.balances # Shown(balances, snap.user)
    /\ \E w \in Workers : lpc[w] \in {"lock", "read", "add", "write"}

\* The errors ValidateRequest returns before it asks the nonce store.
HeaderRefusals ==
    {ErrMissingTimestamp, ErrMissingNonce, ErrMissingSignature, ErrTimestampFormat,
     ErrTolerance}

\* C33: a call that returns a missing-header, timestamp-format or tolerance
\* error has not asked the nonce store and leaves its records as they were,
\* and a correctly signed request within tolerance whose nonce the store did
\* not hold when its call began is accepted.
C33_RefusedOnHeadersNoRecord ==
    [][/\ (last = NoCall /\ last' # NoCall /\ last'.res \in HeaderRefusals)
          => /\ nonces' = nonces
             /\ seenAt' = seenAt
             /\ ~last'.asked
       /\ \A w \in Workers :
            (/\ pc[w] = "verify" /\ pc'[w] = "idle"
             /\ unseen[w]
             /\ CorrectlySigned(req[w])
             /\ WithinTolerance(req[w], began[w]))
            => last'.res = Nil]_vars

\* The first call left no record, so it was refused on its headers; the
\* second, made at the same instant, was accepted, and the store holds the
\* nonce of the second alone.
C33_Witness ==
    /\ calls = 2
    /\ now = 0
    /\ last.no = 2
    /\ last.res = Nil
    /\ DOMAIN nonces = {last.req.nonce}

\* C34: every ValidateRequest, with the IsValid inside it, and every
\* AddEntry that has begun returns; a goroutine that is in no call holds
\* neither lock, and with no call under way both locks are free; and no
\* goroutine holds the lock of the nonce store and the lock of the ledger
\* at the same time.
C34_CallsReturn ==
    /\ \A w \in Workers : (pc[w] # "idle") ~> (pc[w] = "idle")
    /\ \A w \in Workers : (lpc[w] # "idle") ~> (lpc[w] = "idle")
    /\ [](\A w \in Workers :
            /\ pc[w] \in {"idle", "lock", "verify"} => mu # w
            /\ lpc[w] \in {"idle", "lock"} => lmu # w
            /\ ~(mu = w /\ lmu = w))

\* One AddEntry has returned the invalid-amount error, and a goroutine is
\* waiting for the nonce store's lock while another holds it.
C34_Witness ==
    /\ \E w \in Workers : lres[w] = ErrInvalidAmount /\ lpc[w] = "idle"
    /\ lmu = NoWorker
    /\ \E v \in Workers, w \in Workers : mu = v /\ pc[w] = "lock"

\* The statuses that answer a request the validator has accepted and a later
\* stage has rejected: the body that is not JSON, the missing field, the
\* amount the ledger cannot read.
LaterRefusals == {StatusBadRequest, StatusInternalServerError}

\* C35: a webhook the validator accepts and a later stage rejects leaves
\* the ledger (its balances, its known users and its audit log) as it was,
\* and the same signed request sent again, while its timestamp is within
\* tolerance and within the hour after the first attempt, is answered 401
\* with the duplicate-nonce error and leaves the ledger as it was.
C35_NonceNotRolledBack ==
    [][/\ (/\ handled' # handled
           /\ reply'.op = "webhook"
           /\ reply'.status \in LaterRefusals)
          => /\ reply'.req.nonce \in DOMAIN nonces'
             /\ balances' = balances
             /\ entries' = entries
       /\ (/\ handled' # handled
           /\ reply.op = "webhook"
           /\ reply.status \in LaterRefusals
           /\ reply'.op = "webhook"
           /\ reply'.req = reply.req
           /\ ~OutOfTolerance(now, ParseInt(reply.req.ts), tolerance)
           /\ ~AgedOut(now, reply.at))
          => /\ reply'.status = StatusUnauthorized
             /\ reply'.auth = ErrDuplicateNonce
             /\ balances' = balances
             /\ entries' = entries]_vars

\* The exact sum of the amounts the audit log holds for one account.
RECURSIVE LoggedSum(_, _, _)
LoggedSum(log, u, a) ==
    IF log = <<>> THEN NewFromString(Zero)
    ELSE LET e == log[Len(log)]
             rest == LoggedSum(SubSeq(log, 1, Len(log) - 1), u, a)
         IN  IF e.user = u /\ e.asset = a
             THEN Add(rest, NewFromString(IF e.amount = <<>> THEN Zero ELSE e.amount))
             ELSE rest

\* C36: in every state of the ledger each stored balance is the exact sum
\* of the amounts the audit log holds for that user and asset, written with
\* 8 fractional digits, and every logged entry has a stored balance.
C36_BalanceIsLoggedSum ==
    /\ \A u \in DOMAIN balances : \A a \in DOMAIN balances[u] :
          balances[u][a] = StringFixed(LoggedSum(entries, u, a), FixedPlaces)
    /\ \A i \in 1..Len(entries) :
          /\ entries[i].user \in DOMAIN balances
          /\ entries[i].asset \in DOMAIN balances[entries[i].user]

\* C37: an IsValid call that returns false leaves every record of the store,
\* the refused nonce's among them, as it was, whatever timestamp the replay
\* carried: the record keeps the time it was given when the nonce was
\* accepted, and a replay does not delay the moment it ages out.
C37_RefusalLeavesStore ==
    [][(/\ icalls' # icalls
        /\ ilast'.op = "isvalid"
        /\ ~ilast'.ok)
       => /\ stores' = stores
          /\ iseen' = iseen
          /\ ilast'.nonce \in DOMAIN stores[ilast'.on]
          /\ AgedOut(now + Hour, stores'[ilast'.on][ilast'.nonce])
               = AgedOut(now + Hour, stores[ilast'.on][ilast'.nonce])]_vars

\* A nonce accepted at time 0 was replayed and refused twice, the second
\* time an hour later, and its record still holds time 0.
C37_Witness ==
    /\ icalls = 3
    /\ ilast.op = "isvalid"
    /\ ~ilast.ok
    /\ ilast.at = Hour
    /\ stores[ilast.on][ilast.nonce] = 0
    /\ iseen[ilast.on][ilast.nonce] = 0

\* C38: a POST to /webhook that the validator accepts and whose body is
\* not JSON is answered with status 500, and the ledger is left as it was.
C38_InvalidJsonServerError ==
    [][(/\ handled' # handled
        /\ reply'.op = "webhook"
        /\ reply'.req.method = "POST"
        /\ reply'.auth = Nil
        /\ ~Scanned(reply'.req.body).ok)
       => /\ reply'.status = StatusInternalServerError
          /\ balances' = balances
          /\ entries' = entries]_vars

====
